---- MODULE Spec2Model ----
(***************************************************************************)
(* Model of the tele-rust terminal client: the AppState store (app.rs),    *)
(* the key mapper (input.rs), the event loop of main (main.rs) and the     *)
(* request loop of the backend task (telegram.rs), joined by the two       *)
(* bounded mpsc channels.                                                  *)
(*                                                                         *)
(* Characters are one-character strings.  The Cyrillic aliases are written *)
(* in ASCII: "cy_j" is U+0439, "cy_sh" is U+0448, "cy_y" is U+044B, and    *)
(* "CY_J", "CY_SH", "CY_Y" are their upper-case forms.  A String is a      *)
(* sequence of characters.  Option::None of a dialog id is NoneId.         *)
(***************************************************************************)
EXTENDS Integers, Sequences, FiniteSets, TLC

VARIABLES
    app,            \* the AppState value owned by main
    req_chan,       \* requests in flight, controller -> backend (mpsc::channel(32))
    event_chan,     \* events in flight, backend -> controller (mpsc::channel(64))
    ctl_pc,         \* where main is: "select", "send", "shutdown", "join", "exited"
    ctl_req,        \* the request main is sending while ctl_pc = "send"
    tg_pc,          \* where run_request_loop is: "select", "emit", "done"
    tg_event,       \* the event the backend is sending while tg_pc = "emit"
    tg_then,        \* what the backend does after that send: "select" or "done"
    dialogs_dirty,  \* run_request_loop's local flag
    last_step       \* the step taken last: [op |-> "Key", cmd], [op |-> "Event", event],
                    \* or only op: "Init", "Closed", "SendResume", "Shutdown", "Join", "Backend"

vars == <<app, req_chan, event_chan, ctl_pc, ctl_req, tg_pc, tg_event, tg_then,
          dialogs_dirty, last_step>>

----------------------------------------------------------------------------
\* Bounds of the model.

\* capacity of the request channel in the model (32 in main.rs)
ReqCap == 1
\* capacity of the event channel in the model (64 in main.rs)
EvtCap == 1
\* longest search query the model types
MaxQuery == 1
\* longest compose text the model types
MaxCompose == 1
\* longest compose text typed where the text submitted is looked at
MaxSubmitText == 2
\* largest scroll offset the model scrolls to
MaxScroll == 2

\* Option::None for selected_dialog_id; the dialog ids of the model are positive.
NoneId == 0

----------------------------------------------------------------------------
\* Characters and strings.

\* char::to_ascii_lowercase: only A..Z change.
to_ascii_lowercase(ch) ==
    CASE ch = "Q" -> "q"
      [] ch = "I" -> "i"
      [] ch = "S" -> "s"
      [] ch = "A" -> "a"
      [] OTHER -> ch

\* char-wise str::to_lowercase: every cased letter changes.
lower_char(ch) ==
    CASE ch = "CY_J" -> "cy_j"
      [] ch = "CY_SH" -> "cy_sh"
      [] ch = "CY_Y" -> "cy_y"
      [] OTHER -> to_ascii_lowercase(ch)

to_lowercase(str) == [i \in 1..Len(str) |-> lower_char(str[i])]

\* Unicode scalar value of a character: the order String::cmp compares by.
code_point(ch) ==
    CASE ch = " " -> 32
      [] ch = "." -> 46
      [] ch = "/" -> 47
      [] ch = "A" -> 65
      [] ch = "I" -> 73
      [] ch = "Q" -> 81
      [] ch = "S" -> 83
      [] ch = "a" -> 97
      [] ch = "i" -> 105
      [] ch = "q" -> 113
      [] ch = "s" -> 115
      [] ch = "CY_J" -> 1049
      [] ch = "CY_SH" -> 1064
      [] ch = "CY_Y" -> 1067
      [] ch = "cy_j" -> 1081
      [] ch = "cy_sh" -> 1096
      [] ch = "cy_y" -> 1099

\* Ordering of two strings: "lt", "eq" or "gt", lexicographic by code point.
RECURSIVE str_cmp(_, _)
str_cmp(a, b) ==
    IF a = <<>> /\ b = <<>> THEN "eq"
    ELSE IF a = <<>> THEN "lt"
    ELSE IF b = <<>> THEN "gt"
    ELSE IF code_point(Head(a)) < code_point(Head(b)) THEN "lt"
    ELSE IF code_point(Head(a)) > code_point(Head(b)) THEN "gt"
    ELSE str_cmp(Tail(a), Tail(b))

\* str::contains: needle occurs in hay as a contiguous run.
contains(hay, needle) ==
    \E i \in 0..(Len(hay) - Len(needle)) :
        SubSeq(hay, i + 1, i + Len(needle)) = needle

\* char::is_whitespace for the characters of the model.
is_whitespace(ch) == ch = " "

\* str::trim: leading and trailing whitespace removed.
RECURSIVE trim_start(_)
trim_start(str) ==
    IF str # <<>> /\ is_whitespace(Head(str)) THEN trim_start(Tail(str)) ELSE str

RECURSIVE trim_end(_)
trim_end(str) ==
    IF str # <<>> /\ is_whitespace(str[Len(str)])
    THEN trim_end(SubSeq(str, 1, Len(str) - 1))
    ELSE str

trim(str) == trim_end(trim_start(str))

\* String::pop / Vec::pop: the last element removed, nothing on an empty one.
pop(str) == IF str = <<>> THEN str ELSE SubSeq(str, 1, Len(str) - 1)

----------------------------------------------------------------------------
\* HashMap as a function on the set of its keys.

EmptyMap == [k \in {} |-> 0]

map_insert(m, k, v) == [x \in DOMAIN m \cup {k} |-> IF x = k THEN v ELSE m[x]]

map_remove(m, k) == [x \in DOMAIN m \ {k} |-> m[x]]

\* HashMap::retain on the keys.
map_retain_keys(m, keep) == [x \in DOMAIN m \cap keep |-> m[x]]

----------------------------------------------------------------------------
\* AppState (app.rs).  Every operation maps a state record to the state
\* record the method leaves behind.

\* AppState::new
AppState_new ==
    [ dialogs |-> <<>>,
      selected_dialog_id |-> NoneId,
      messages_by_dialog |-> EmptyMap,
      new_message_count_by_dialog |-> EmptyMap,
      is_loading_dialogs |-> TRUE,
      is_loading_messages |-> FALSE,
      is_sending_message |-> FALSE,
      last_error |-> "None",
      should_quit |-> FALSE,
      focus |-> "Chats",
      sort_mode |-> "Recent",
      ui_mode |-> "Normal",
      search_query |-> <<>>,
      compose_text |-> <<>>,
      message_scroll_from_bottom |-> 0,
      pending_new_messages_for_selected |-> 0 ]

\* matches_query with neither side lower-cased.
matches_query_case_sensitive(s, dialog) ==
    IF s.search_query = <<>> THEN TRUE
    ELSE contains(dialog.title, s.search_query)

matches_query(s, dialog) ==
    IF s.search_query = <<>> THEN TRUE
    ELSE contains(to_lowercase(dialog.title), to_lowercase(s.search_query))

\* Vec::iter().filter().collect(): the matching elements in their order.
RECURSIVE filter_dialogs(_, _)
filter_dialogs(s, ds) ==
    IF ds = <<>> THEN <<>>
    ELSE IF matches_query(s, Head(ds))
         THEN <<Head(ds)>> \o filter_dialogs(s, Tail(ds))
         ELSE filter_dialogs(s, Tail(ds))

\* The comparator of visible_dialogs with the tie-break on id left out.
dialog_le_title_only(a, b) ==
    str_cmp(to_lowercase(a.title), to_lowercase(b.title)) \in {"lt", "eq"}

\* The comparator of visible_dialogs: lower-cased title, then id.
dialog_le(a, b) ==
    LET c == str_cmp(to_lowercase(a.title), to_lowercase(b.title))
    IN  c = "lt" \/ (c = "eq" /\ a.id <= b.id)

\* slice::sort_by is stable: an element goes after every element that is not
\* greater than it.
RECURSIVE insert_sorted(_, _)
insert_sorted(x, sorted) ==
    IF sorted = <<>> THEN <<x>>
    ELSE IF dialog_le(Head(sorted), x)
         THEN <<Head(sorted)>> \o insert_sorted(x, Tail(sorted))
         ELSE <<x>> \o sorted

RECURSIVE sort_dialogs(_)
sort_dialogs(ds) ==
    IF ds = <<>> THEN <<>>
    ELSE insert_sorted(ds[Len(ds)], sort_dialogs(SubSeq(ds, 1, Len(ds) - 1)))

visible_dialogs(s) ==
    LET dialogs == filter_dialogs(s, s.dialogs)
    IN  IF s.sort_mode = "Alphabetical" THEN sort_dialogs(dialogs) ELSE dialogs

visible_dialog_ids(s) ==
    LET v == visible_dialogs(s) IN [i \in 1..Len(v) |-> v[i].id]

\* Iterator::position: the first index holding id, 0 when there is none.
position(ids, id) ==
    IF \E i \in 1..Len(ids) : ids[i] = id
    THEN CHOOSE i \in 1..Len(ids) : ids[i] = id /\ \A j \in 1..(i - 1) : ids[j] # id
    ELSE 0

seq_contains(ids, id) == \E i \in 1..Len(ids) : ids[i] = id

ensure_selection(s) ==
    LET visible == visible_dialog_ids(s)
    IN  IF visible = <<>> THEN [s EXCEPT !.selected_dialog_id = NoneId]
        ELSE IF ~(s.selected_dialog_id # NoneId /\ seq_contains(visible, s.selected_dialog_id))
             THEN [s EXCEPT !.selected_dialog_id = visible[1],
                            !.message_scroll_from_bottom = 0,
                            !.pending_new_messages_for_selected = 0]
             ELSE s

dialog_ids(ds) == {ds[i].id : i \in 1..Len(ds)}

on_dialogs_loaded(s, dialogs) ==
    ensure_selection(
        [s EXCEPT !.dialogs = dialogs,
                  !.new_message_count_by_dialog =
                      map_retain_keys(s.new_message_count_by_dialog, dialog_ids(dialogs)),
                  !.is_loading_dialogs = FALSE])

\* on_messages_loaded with the badge counter removed for the selected dialog only.
on_messages_loaded_selected_only(s, dialog_id, messages) ==
    LET t == [s EXCEPT !.messages_by_dialog = map_insert(s.messages_by_dialog, dialog_id, messages),
                       !.is_loading_messages = FALSE]
    IN  IF dialog_id = s.selected_dialog_id
        THEN [t EXCEPT !.new_message_count_by_dialog =
                           map_remove(s.new_message_count_by_dialog, dialog_id),
                       !.message_scroll_from_bottom = 0,
                       !.pending_new_messages_for_selected = 0]
        ELSE t
\* on_messages_loaded that resets the viewport whichever dialog was loaded.
on_messages_loaded_always_resets(s, dialog_id, messages) ==
    [s EXCEPT !.messages_by_dialog = map_insert(@, dialog_id, messages),
              !.new_message_count_by_dialog = map_remove(@, dialog_id),
              !.is_loading_messages = FALSE,
              !.message_scroll_from_bottom = 0,
              !.pending_new_messages_for_selected = 0]


on_messages_loaded(s, dialog_id, messages) ==
    LET t == [s EXCEPT !.messages_by_dialog = map_insert(s.messages_by_dialog, dialog_id, messages),
                       !.new_message_count_by_dialog =
                           map_remove(s.new_message_count_by_dialog, dialog_id),
                       !.is_loading_messages = FALSE]
    IN  IF dialog_id = s.selected_dialog_id
        THEN [t EXCEPT !.message_scroll_from_bottom = 0,
                       !.pending_new_messages_for_selected = 0]
        ELSE t

\* The list stored for a dialog after entry(dialog_id).or_default().
messages_or_default(s, dialog_id) ==
    IF dialog_id \in DOMAIN s.messages_by_dialog
    THEN s.messages_by_dialog[dialog_id]
    ELSE <<>>

\* Whether append_message_if_missing returns true.
message_is_missing(s, dialog_id, message) ==
    ~ \E i \in 1..Len(messages_or_default(s, dialog_id)) :
          messages_or_default(s, dialog_id)[i].id = message.id

\* append_message_if_missing with only the last stored message compared.
append_message_if_missing_last_only(s, dialog_id, message) ==
    LET messages == messages_or_default(s, dialog_id)
    IN  [s EXCEPT !.messages_by_dialog =
            map_insert(s.messages_by_dialog, dialog_id,
                       IF messages = <<>> \/ messages[Len(messages)].id # message.id
                       THEN Append(messages, message)
                       ELSE messages)]

\* The state append_message_if_missing leaves: the entry exists afterwards, and
\* the message is pushed when no stored message has its id.
append_message_if_missing(s, dialog_id, message) ==
    LET messages == messages_or_default(s, dialog_id)
    IN  [s EXCEPT !.messages_by_dialog =
            map_insert(s.messages_by_dialog, dialog_id,
                       IF message_is_missing(s, dialog_id, message)
                       THEN Append(messages, message)
                       ELSE messages)]
\* on_message_sent that also brings the viewport of the selected dialog back
\* to the bottom.
on_message_sent_resets_viewport(s, dialog_id, message) ==
    [append_message_if_missing(s, dialog_id, message)
        EXCEPT !.is_sending_message = FALSE,
               !.compose_text = <<>>,
               !.last_error = "None",
               !.message_scroll_from_bottom = IF dialog_id = s.selected_dialog_id THEN 0 ELSE @,
               !.pending_new_messages_for_selected =
                   IF dialog_id = s.selected_dialog_id THEN 0 ELSE @]


on_message_sent(s, dialog_id, message) ==
    [append_message_if_missing(s, dialog_id, message)
        EXCEPT !.is_sending_message = FALSE,
               !.compose_text = <<>>,
               !.last_error = "None"]

dialog_new_message_count(s, dialog_id) ==
    IF dialog_id \in DOMAIN s.new_message_count_by_dialog
    THEN s.new_message_count_by_dialog[dialog_id]
    ELSE 0

\* on_incoming_message with the scroll offset not looked at: a new message for the
\* selected dialog always counts as pending.
on_incoming_message_no_scroll_test(s, dialog_id, message) ==
    LET t == append_message_if_missing(s, dialog_id, message)
    IN  IF ~message_is_missing(s, dialog_id, message) THEN t
        ELSE IF dialog_id = s.selected_dialog_id
             THEN [t EXCEPT !.pending_new_messages_for_selected = @ + 1]
             ELSE [t EXCEPT !.new_message_count_by_dialog =
                      map_insert(s.new_message_count_by_dialog, dialog_id,
                                 dialog_new_message_count(s, dialog_id) + 1)]

\* on_incoming_message with the scroll test made before the selection test.
on_incoming_message_scroll_first(s, dialog_id, message) ==
    LET t == append_message_if_missing(s, dialog_id, message)
    IN  IF ~message_is_missing(s, dialog_id, message) THEN t
        ELSE IF s.message_scroll_from_bottom > 0
             THEN [t EXCEPT !.pending_new_messages_for_selected = @ + 1]
        ELSE IF dialog_id = s.selected_dialog_id THEN t
        ELSE [t EXCEPT !.new_message_count_by_dialog =
                 map_insert(s.new_message_count_by_dialog, dialog_id,
                            dialog_new_message_count(s, dialog_id) + 1)]
\* on_incoming_message that makes the counter entry before it looks at the
\* selection, and counts from there.
on_incoming_message_entry_first(s, dialog_id, message) ==
    LET t == append_message_if_missing(s, dialog_id, message)
        counted(by) == map_insert(s.new_message_count_by_dialog, dialog_id,
                                  dialog_new_message_count(s, dialog_id) + by)
    IN  IF ~message_is_missing(s, dialog_id, message) THEN t
        ELSE IF dialog_id = s.selected_dialog_id
             THEN [t EXCEPT !.new_message_count_by_dialog = counted(0),
                            !.pending_new_messages_for_selected =
                                IF s.message_scroll_from_bottom > 0 THEN @ + 1 ELSE @]
             ELSE [t EXCEPT !.new_message_count_by_dialog = counted(1)]


on_incoming_message(s, dialog_id, message) ==
    LET t == append_message_if_missing(s, dialog_id, message)
    IN  IF ~message_is_missing(s, dialog_id, message) THEN t
        ELSE IF dialog_id = s.selected_dialog_id
             THEN IF s.message_scroll_from_bottom > 0
                  THEN [t EXCEPT !.pending_new_messages_for_selected = @ + 1]
                  ELSE t
             ELSE [t EXCEPT !.new_message_count_by_dialog =
                      map_insert(s.new_message_count_by_dialog, dialog_id,
                                 dialog_new_message_count(s, dialog_id) + 1)]

selected_dialog_messages(s) ==
    IF s.selected_dialog_id # NoneId
    THEN messages_or_default(s, s.selected_dialog_id)
    ELSE <<>>
\* select_prev that moves the selection and leaves the scroll offset alone.
select_prev_keeps_scroll(s) ==
    LET visible == visible_dialog_ids(s)
        pos == position(visible, s.selected_dialog_id)
    IN  IF visible = <<>> THEN s
        ELSE IF s.selected_dialog_id = NoneId \/ pos = 0
             THEN [s EXCEPT !.selected_dialog_id = visible[1],
                            !.pending_new_messages_for_selected = 0]
        ELSE IF pos = 1 THEN s
        ELSE [s EXCEPT !.selected_dialog_id = visible[pos - 1],
                       !.pending_new_messages_for_selected = 0]


select_prev(s) ==
    LET visible == visible_dialog_ids(s)
        pos == position(visible, s.selected_dialog_id)
    IN  IF visible = <<>> THEN s
        ELSE IF s.selected_dialog_id = NoneId
             THEN [s EXCEPT !.selected_dialog_id = visible[1],
                            !.pending_new_messages_for_selected = 0]
        ELSE IF pos = 0
             THEN [s EXCEPT !.selected_dialog_id = visible[1],
                            !.pending_new_messages_for_selected = 0]
        ELSE IF pos = 1 THEN s
        ELSE [s EXCEPT !.selected_dialog_id = visible[pos - 1],
                       !.message_scroll_from_bottom = 0,
                       !.pending_new_messages_for_selected = 0]

\* select_next with the edge test off by one: the last position is never selected.
select_next_stops_early(s) ==
    LET visible == visible_dialog_ids(s)
        pos == position(visible, s.selected_dialog_id)
    IN  IF visible = <<>> THEN s
        ELSE IF s.selected_dialog_id = NoneId \/ pos = 0
             THEN [s EXCEPT !.selected_dialog_id = visible[1],
                            !.pending_new_messages_for_selected = 0]
        ELSE IF pos + 2 > Len(visible) THEN s
        ELSE [s EXCEPT !.selected_dialog_id = visible[pos + 1],
                       !.message_scroll_from_bottom = 0,
                       !.pending_new_messages_for_selected = 0]

select_next(s) ==
    LET visible == visible_dialog_ids(s)
        pos == position(visible, s.selected_dialog_id)
    IN  IF visible = <<>> THEN s
        ELSE IF s.selected_dialog_id = NoneId
             THEN [s EXCEPT !.selected_dialog_id = visible[1],
                            !.pending_new_messages_for_selected = 0]
        ELSE IF pos = 0
             THEN [s EXCEPT !.selected_dialog_id = visible[1],
                            !.pending_new_messages_for_selected = 0]
        ELSE IF pos + 1 > Len(visible) THEN s
        ELSE [s EXCEPT !.selected_dialog_id = visible[pos + 1],
                       !.message_scroll_from_bottom = 0,
                       !.pending_new_messages_for_selected = 0]

\* The bool select_prev returns.
select_prev_result(s) ==
    LET visible == visible_dialog_ids(s)
    IN  /\ visible # <<>>
        /\ position(visible, s.selected_dialog_id) # 1

\* The bool select_next returns.
select_next_result(s) ==
    LET visible == visible_dialog_ids(s)
        pos == position(visible, s.selected_dialog_id)
    IN  /\ visible # <<>>
        /\ (s.selected_dialog_id = NoneId \/ pos = 0 \/ pos + 1 <= Len(visible))

focus_next(s) ==
    [s EXCEPT !.focus = CASE s.focus = "Chats" -> "Messages"
                          [] s.focus = "Messages" -> "Input"
                          [] s.focus = "Input" -> "Chats"]

focus_prev(s) ==
    [s EXCEPT !.focus = CASE s.focus = "Chats" -> "Input"
                          [] s.focus = "Messages" -> "Chats"
                          [] s.focus = "Input" -> "Messages"]

enter_compose(s) == [s EXCEPT !.ui_mode = "Compose", !.focus = "Input"]

exit_compose(s) == [s EXCEPT !.ui_mode = "Normal"]

start_search(s) == [s EXCEPT !.ui_mode = "Search", !.focus = "Chats"]
\* exit_or_clear_search that leaves the mode and keeps the query
exit_or_clear_search_keeps_query(s) ==
    [s EXCEPT !.ui_mode = "Normal"]


exit_or_clear_search(s) ==
    IF s.search_query = <<>>
    THEN [s EXCEPT !.ui_mode = "Normal"]
    ELSE ensure_selection([s EXCEPT !.search_query = <<>>, !.ui_mode = "Normal"])

toggle_sort_mode(s) ==
    ensure_selection(
        [s EXCEPT !.sort_mode = IF s.sort_mode = "Recent" THEN "Alphabetical" ELSE "Recent"])

\* insert_char with the query edited and the selection left as it was.
insert_char_unvalidated(s, ch) ==
    CASE s.ui_mode = "Compose" -> [s EXCEPT !.compose_text = Append(@, ch)]
      [] s.ui_mode = "Search" -> [s EXCEPT !.search_query = Append(@, ch)]
      [] s.ui_mode = "Normal" -> s

insert_char(s, ch) ==
    CASE s.ui_mode = "Compose" -> [s EXCEPT !.compose_text = Append(@, ch)]
      [] s.ui_mode = "Search" -> ensure_selection([s EXCEPT !.search_query = Append(@, ch)])
      [] s.ui_mode = "Normal" -> s
\* backspace that erases the whole buffer
backspace_clears_buffer(s) ==
    CASE s.ui_mode = "Compose" -> [s EXCEPT !.compose_text = <<>>]
      [] s.ui_mode = "Search" -> ensure_selection([s EXCEPT !.search_query = <<>>])
      [] s.ui_mode = "Normal" -> s


backspace(s) ==
    CASE s.ui_mode = "Compose" -> [s EXCEPT !.compose_text = pop(@)]
      [] s.ui_mode = "Search" -> ensure_selection([s EXCEPT !.search_query = pop(@)])
      [] s.ui_mode = "Normal" -> s

scroll_messages_up(s) == [s EXCEPT !.message_scroll_from_bottom = @ + 1]

\* scroll_messages_down with the pending indicator cleared on every step down.
scroll_messages_down_clears_early(s) ==
    IF s.message_scroll_from_bottom > 0
    THEN [s EXCEPT !.message_scroll_from_bottom = @ - 1,
                   !.pending_new_messages_for_selected = 0]
    ELSE s
\* scroll_messages_down without the test for offset 0
scroll_messages_down_unfloored(s) ==
    IF s.message_scroll_from_bottom - 1 = 0
    THEN [s EXCEPT !.message_scroll_from_bottom = 0,
                   !.pending_new_messages_for_selected = 0]
    ELSE [s EXCEPT !.message_scroll_from_bottom = @ - 1]

\* scroll_messages_down that leaves the pending indicator alone
scroll_messages_down_keeps_pending(s) ==
    IF s.message_scroll_from_bottom > 0
    THEN [s EXCEPT !.message_scroll_from_bottom = @ - 1]
    ELSE s


scroll_messages_down(s) ==
    IF s.message_scroll_from_bottom > 0
    THEN IF s.message_scroll_from_bottom - 1 = 0
         THEN [s EXCEPT !.message_scroll_from_bottom = 0,
                        !.pending_new_messages_for_selected = 0]
         ELSE [s EXCEPT !.message_scroll_from_bottom = @ - 1]
    ELSE s

----------------------------------------------------------------------------
\* The key mapper (input.rs).  A key event is [kind, code, ch]: kind is
\* "Press" or "Release", code the KeyCode variant, ch the character of
\* KeyCode::Char (and "" otherwise).  An AppCommand is [cmd, ch], ch being
\* the character of InsertChar (and "" otherwise).

QUIT_HOTKEYS == {"q", "cy_j"}
COMPOSE_HOTKEYS == {"i", "cy_sh"}
SORT_HOTKEYS == {"s", "cy_y"}
SEARCH_HOTKEYS == {"/", "."}

Command(name) == [cmd |-> name, ch |-> ""]

is_hotkey_char(key, hotkeys) ==
    key.code = "Char" /\ to_ascii_lowercase(key.ch) \in hotkeys
\* is_quit_hotkey that knows the first keyboard layout only
is_quit_hotkey_first_layout(key) ==
    key.code = "Char" /\ to_ascii_lowercase(key.ch) = "q"


is_quit_hotkey(key) == is_hotkey_char(key, QUIT_HOTKEYS)
is_compose_hotkey(key) == is_hotkey_char(key, COMPOSE_HOTKEYS)
is_sort_hotkey(key) == is_hotkey_char(key, SORT_HOTKEYS)
is_search_hotkey(key) == is_hotkey_char(key, SEARCH_HOTKEYS)

map_key_event(key, ui_mode, focus) ==
    IF key.kind # "Press" THEN Command("None")
    ELSE IF key.code = "BackTab" THEN Command("FocusPrev")
    ELSE CASE key.code = "Tab" -> Command("FocusNext")
           [] key.code = "Up" ->
                (CASE focus = "Chats" -> Command("MoveUp")
                   [] focus = "Messages" -> Command("ScrollMessagesUp")
                   [] focus = "Input" -> Command("None"))
           [] key.code = "Down" ->
                (CASE focus = "Chats" -> Command("MoveDown")
                   [] focus = "Messages" -> Command("ScrollMessagesDown")
                   [] focus = "Input" -> Command("None"))
           [] key.code = "Enter" ->
                (IF ui_mode = "Compose" THEN Command("SubmitMessage") ELSE Command("None"))
           [] key.code = "Backspace" -> Command("Backspace")
           [] key.code = "Esc" -> Command("ExitComposeOrSearch")
           [] key.code = "Char" ->
                (IF is_search_hotkey(key) /\ ui_mode # "Compose"
                     THEN Command("StartSearch")
                 ELSE IF is_sort_hotkey(key) /\ focus = "Chats" /\ ui_mode # "Compose"
                     THEN Command("ToggleSortMode")
                 ELSE IF is_compose_hotkey(key) /\ ui_mode # "Search"
                     THEN Command("EnterCompose")
                 ELSE IF is_quit_hotkey(key) /\ ui_mode = "Normal"
                     THEN Command("Quit")
                 ELSE [cmd |-> "InsertChar", ch |-> key.ch])
           [] OTHER -> Command("None")

----------------------------------------------------------------------------
\* The data the environment supplies: the dialogs and messages the backend
\* can report, and the key events the terminal can deliver.

Dialog1 == [id |-> 1, title |-> <<"Q", "a">>]
Dialog2 == [id |-> 2, title |-> <<"a">>]
DialogIds == {Dialog1.id, Dialog2.id}
BackendDialogLists == {<<Dialog1, Dialog2>>, <<Dialog2>>}

Message(n) == [id |-> n]
BackendMessageLists == {<<>>, <<Message(1)>>}

Press(code) == [kind |-> "Press", code |-> code, ch |-> ""]
PressChar(ch) == [kind |-> "Press", code |-> "Char", ch |-> ch]


----------------------------------------------------------------------------
\* Requests and events (telegram.rs).

NoRequest == [type |-> "NoRequest"]
LoadDialogsRequest == [type |-> "LoadDialogs"]
LoadMessagesRequest(dialog_id) == [type |-> "LoadMessages", dialog_id |-> dialog_id, limit |-> 50]
SendMessageRequest(dialog_id, text) == [type |-> "SendMessage", dialog_id |-> dialog_id, text |-> text]
ShutdownRequest == [type |-> "Shutdown"]

NoEvent == [type |-> "NoEvent"]
DialogsLoadedEvent(dialogs) == [type |-> "DialogsLoaded", dialogs |-> dialogs]
MessagesLoadedEvent(dialog_id, messages) ==
    [type |-> "MessagesLoaded", dialog_id |-> dialog_id, messages |-> messages]
MessageSentEvent(dialog_id, message) ==
    [type |-> "MessageSent", dialog_id |-> dialog_id, message |-> message]
IncomingMessageEvent(dialog_id, message) ==
    [type |-> "IncomingMessage", dialog_id |-> dialog_id, message |-> message]
ErrorEvent(text) == [type |-> "Error", text |-> text]

----------------------------------------------------------------------------
\* The handlers of main (main.rs).  A handler maps the state to the state it
\* leaves and the request it goes on to send (NoRequest when it sends none).

Outcome(s, req) == [app |-> s, req |-> req]

\* request_messages_for_selected, up to the send.
request_messages_for_selected(s) ==
    IF s.selected_dialog_id # NoneId
    THEN Outcome([s EXCEPT !.is_loading_messages = TRUE],
                 LoadMessagesRequest(s.selected_dialog_id))
    ELSE Outcome(s, NoRequest)

\* request_send_message with the raw compose text validated, not the trimmed one.
request_send_message_validates_raw(s) ==
    IF s.is_sending_message THEN Outcome(s, NoRequest)
    ELSE IF s.selected_dialog_id = NoneId
         THEN Outcome([s EXCEPT !.last_error = "No chat selected"], NoRequest)
    ELSE IF s.compose_text = <<>>
         THEN Outcome([s EXCEPT !.last_error = "Message must not be empty"], NoRequest)
    ELSE Outcome([s EXCEPT !.is_sending_message = TRUE, !.last_error = "None"],
                 SendMessageRequest(s.selected_dialog_id, trim(s.compose_text)))

\* request_send_message with the raw compose text sent, not the trimmed one.
request_send_message_sends_raw(s) ==
    IF s.is_sending_message THEN Outcome(s, NoRequest)
    ELSE IF s.selected_dialog_id = NoneId
         THEN Outcome([s EXCEPT !.last_error = "No chat selected"], NoRequest)
    ELSE IF trim(s.compose_text) = <<>>
         THEN Outcome([s EXCEPT !.last_error = "Message must not be empty"], NoRequest)
    ELSE Outcome([s EXCEPT !.is_sending_message = TRUE, !.last_error = "None"],
                 SendMessageRequest(s.selected_dialog_id, s.compose_text))

\* request_send_message, up to the send.
request_send_message(s) ==
    IF s.is_sending_message THEN Outcome(s, NoRequest)
    ELSE IF s.selected_dialog_id = NoneId
         THEN Outcome([s EXCEPT !.last_error = "No chat selected"], NoRequest)
    ELSE IF trim(s.compose_text) = <<>>
         THEN Outcome([s EXCEPT !.last_error = "Message must not be empty"], NoRequest)
    ELSE Outcome([s EXCEPT !.is_sending_message = TRUE, !.last_error = "None"],
                 SendMessageRequest(s.selected_dialog_id, trim(s.compose_text)))

\* The Err arm of the two request functions: the send failed.
send_failed(s, req) ==
    IF req.type = "LoadMessages"
    THEN [s EXCEPT !.last_error = "failed to request messages",
                   !.is_loading_messages = FALSE]
    ELSE [s EXCEPT !.last_error = "failed to request message send",
                   !.is_sending_message = FALSE]

\* The match on the mapped command in main's key arm.
apply_command(s, cmd) ==
    CASE cmd.cmd = "MoveUp" -> Outcome(select_prev(s), NoRequest)
      [] cmd.cmd = "MoveDown" -> Outcome(select_next(s), NoRequest)
      [] cmd.cmd = "ScrollMessagesUp" -> Outcome(scroll_messages_up(s), NoRequest)
      [] cmd.cmd = "ScrollMessagesDown" -> Outcome(scroll_messages_down(s), NoRequest)
      [] cmd.cmd = "FocusNext" -> Outcome(focus_next(s), NoRequest)
      [] cmd.cmd = "FocusPrev" -> Outcome(focus_prev(s), NoRequest)
      [] cmd.cmd = "EnterCompose" -> Outcome(enter_compose(s), NoRequest)
      [] cmd.cmd = "ExitComposeOrSearch" ->
            (CASE s.ui_mode = "Compose" -> Outcome(exit_compose(s), NoRequest)
               [] s.ui_mode = "Search" -> Outcome(exit_or_clear_search(s), NoRequest)
               [] s.ui_mode = "Normal" -> Outcome(s, NoRequest))
      [] cmd.cmd = "SubmitMessage" -> request_send_message(s)
      [] cmd.cmd = "StartSearch" -> Outcome(start_search(s), NoRequest)
      [] cmd.cmd = "ToggleSortMode" -> Outcome(toggle_sort_mode(s), NoRequest)
      [] cmd.cmd = "Backspace" -> Outcome(backspace(s), NoRequest)
      [] cmd.cmd = "InsertChar" -> Outcome(insert_char(s, cmd.ch), NoRequest)
      [] cmd.cmd = "Quit" -> Outcome([s EXCEPT !.should_quit = TRUE], NoRequest)
      [] cmd.cmd = "None" -> Outcome(s, NoRequest)

\* main's key arm with the messages requested after every command that sends
\* nothing itself, whether or not the selection changed.
on_command_always_requests(s, cmd) ==
    LET out == apply_command(s, cmd)
    IN  IF out.req.type = "NoRequest"
        THEN request_messages_for_selected(out.app)
        ELSE out

\* main's arm for a key event, from the mapped command on: apply it, and
\* request the messages of a selection that changed.
on_command(s, cmd) ==
    LET out == apply_command(s, cmd)
    IN  IF out.req.type = "NoRequest" /\ s.selected_dialog_id # out.app.selected_dialog_id
        THEN request_messages_for_selected(out.app)
        ELSE out

\* main's arm for a key event.
on_key_event(s, key) == on_command(s, map_key_event(key, s.ui_mode, s.focus))
\* on_telegram_event with an Error arm that clears the two loading flags only.
on_telegram_event_error_keeps_sending(s, ev) ==
    CASE ev.type = "DialogsLoaded" ->
            (LET t == on_dialogs_loaded(s, ev.dialogs)
             IN  IF /\ t.selected_dialog_id # NoneId
                    /\ \/ s.selected_dialog_id # t.selected_dialog_id
                       \/ selected_dialog_messages(t) = <<>>
                 THEN request_messages_for_selected(t)
                 ELSE Outcome(t, NoRequest))
      [] ev.type = "MessagesLoaded" ->
            (IF ev.dialog_id = s.selected_dialog_id
             THEN Outcome(on_messages_loaded(s, ev.dialog_id, ev.messages), NoRequest)
             ELSE Outcome(s, NoRequest))
      [] ev.type = "MessageSent" ->
            Outcome(on_message_sent(s, ev.dialog_id, ev.message), NoRequest)
      [] ev.type = "IncomingMessage" ->
            Outcome(on_incoming_message(s, ev.dialog_id, ev.message), NoRequest)
      [] ev.type = "Error" ->
            Outcome([s EXCEPT !.last_error = ev.text,
                              !.is_loading_dialogs = FALSE,
                              !.is_loading_messages = FALSE], NoRequest)
\* on_telegram_event whose DialogsLoaded arm requests the messages of whatever
\* dialog is selected afterwards.
on_telegram_event_always_requests(s, ev) ==
    CASE ev.type = "DialogsLoaded" ->
            request_messages_for_selected(on_dialogs_loaded(s, ev.dialogs))
      [] ev.type = "MessagesLoaded" ->
            (IF ev.dialog_id = s.selected_dialog_id
             THEN Outcome(on_messages_loaded(s, ev.dialog_id, ev.messages), NoRequest)
             ELSE Outcome(s, NoRequest))
      [] ev.type = "MessageSent" ->
            Outcome(on_message_sent(s, ev.dialog_id, ev.message), NoRequest)
      [] ev.type = "IncomingMessage" ->
            Outcome(on_incoming_message(s, ev.dialog_id, ev.message), NoRequest)
      [] ev.type = "Error" ->
            Outcome([s EXCEPT !.last_error = ev.text,
                              !.is_loading_dialogs = FALSE,
                              !.is_loading_messages = FALSE,
                              !.is_sending_message = FALSE], NoRequest)

\* main's arm for Some(event) received from the backend.
on_telegram_event(s, ev) ==
    CASE ev.type = "DialogsLoaded" ->
            (LET t == on_dialogs_loaded(s, ev.dialogs)
                 should_request_messages ==
                     /\ t.selected_dialog_id # NoneId
                     /\ \/ s.selected_dialog_id # t.selected_dialog_id
                        \/ selected_dialog_messages(t) = <<>>
             IN  IF should_request_messages
                 THEN request_messages_for_selected(t)
                 ELSE Outcome(t, NoRequest))
      [] ev.type = "MessagesLoaded" ->
            (IF ev.dialog_id = s.selected_dialog_id
             THEN Outcome(on_messages_loaded(s, ev.dialog_id, ev.messages), NoRequest)
             ELSE Outcome(s, NoRequest))
      [] ev.type = "MessageSent" ->
            Outcome(on_message_sent(s, ev.dialog_id, ev.message), NoRequest)
      [] ev.type = "IncomingMessage" ->
            Outcome(on_incoming_message(s, ev.dialog_id, ev.message), NoRequest)
      [] ev.type = "Error" ->
            Outcome([s EXCEPT !.last_error = ev.text,
                              !.is_loading_dialogs = FALSE,
                              !.is_loading_messages = FALSE,
                              !.is_sending_message = FALSE], NoRequest)
\* on_channel_closed that reports the closure and lets the loop go on.
on_channel_closed_keeps_running(s) ==
    [s EXCEPT !.last_error = "telegram task exited"]

\* main's arm for None: the event channel is closed and drained.
on_channel_closed(s) ==
    [s EXCEPT !.last_error = "telegram task exited", !.should_quit = TRUE]

----------------------------------------------------------------------------
\* The two tasks and the channels between them.

\* req_rx is dropped when run_request_loop returns; event_tx with it.
RequestChannelClosed == tg_pc = "done"

Init ==
    /\ app = AppState_new
    /\ req_chan = <<LoadDialogsRequest>>
    /\ event_chan = <<>>
    /\ ctl_pc = "select"
    /\ ctl_req = NoRequest
    /\ tg_pc = "select"
    /\ tg_event = NoEvent
    /\ tg_then = "select"
    /\ dialogs_dirty = FALSE
    /\ last_step = [op |-> "Init"]

\* The end of a handler of main: the state it leaves and req_tx.send(req).await.
\* The send fails at once when the receiver is gone, completes at once when the
\* channel has room, and otherwise suspends main until it has.
CtlFinish(out, step) ==
    /\ last_step' = step
    /\ UNCHANGED <<tg_pc, tg_event, tg_then, dialogs_dirty>>
    /\ IF out.req.type = "NoRequest"
       THEN app' = out.app /\ UNCHANGED <<req_chan, ctl_pc, ctl_req>>
       ELSE IF RequestChannelClosed
       THEN app' = send_failed(out.app, out.req) /\ UNCHANGED <<req_chan, ctl_pc, ctl_req>>
       ELSE IF Len(req_chan) < ReqCap
       THEN app' = out.app /\ req_chan' = Append(req_chan, out.req)
            /\ UNCHANGED <<ctl_pc, ctl_req>>
       ELSE app' = out.app /\ ctl_pc' = "send" /\ ctl_req' = out.req
            /\ UNCHANGED req_chan

\* The keys the model presses: the buffers and the scroll offset stay in bounds.
KeyInBounds(E, key) ==
    LET cmd == map_key_event(key, app.ui_mode, app.focus)
    IN  /\ cmd.cmd = "ScrollMessagesUp" => app.message_scroll_from_bottom < MaxScroll
        /\ (cmd.cmd = "InsertChar" /\ app.ui_mode = "Search") => Len(app.search_query) < MaxQuery
        /\ (cmd.cmd = "InsertChar" /\ app.ui_mode = "Compose") => Len(app.compose_text) < E.max_compose

\* select! arm: tick.tick(); the loop only draws the next frame
Tick ==
    /\ ctl_pc = "select" /\ ~app.should_quit
    /\ UNCHANGED vars

\* select! arm: events.next() yields a key event
KeyEvent(E) ==
    /\ ctl_pc = "select" /\ ~app.should_quit
    /\ \E key \in E.keys :
        /\ KeyInBounds(E, key)
        /\ CtlFinish(on_key_event(app, key),
                     [op |-> "Key", cmd |-> map_key_event(key, app.ui_mode, app.focus)])
    /\ UNCHANGED event_chan

\* select! arm: event_rx.recv() yields Some(event)
TelegramEvent ==
    /\ ctl_pc = "select" /\ ~app.should_quit
    /\ event_chan # <<>>
    /\ event_chan' = Tail(event_chan)
    /\ CtlFinish(on_telegram_event(app, Head(event_chan)),
                 [op |-> "Event", event |-> Head(event_chan)])

\* select! arm: event_rx.recv() yields None
ChannelClosed ==
    /\ ctl_pc = "select" /\ ~app.should_quit
    /\ event_chan = <<>> /\ tg_pc = "done"
    /\ CtlFinish(Outcome(on_channel_closed(app), NoRequest), [op |-> "Closed"])
    /\ UNCHANGED event_chan

\* main suspended in req_tx.send(..).await of a request function: the channel
\* gets room, or the receiver is dropped.
SendResume ==
    /\ ctl_pc = "send"
    /\ \/ /\ RequestChannelClosed
          /\ app' = send_failed(app, ctl_req)
          /\ UNCHANGED req_chan
       \/ /\ ~RequestChannelClosed /\ Len(req_chan) < ReqCap
          /\ req_chan' = Append(req_chan, ctl_req)
          /\ UNCHANGED app
    /\ ctl_pc' = "select" /\ ctl_req' = NoRequest
    /\ last_step' = [op |-> "SendResume"]
    /\ UNCHANGED <<event_chan, tg_pc, tg_event, tg_then, dialogs_dirty>>

\* The loop condition fails: req_tx.send(Shutdown).await, its result dropped.
Shutdown ==
    /\ ctl_pc \in {"select", "shutdown"} /\ app.should_quit
    /\ \/ /\ RequestChannelClosed
          /\ ctl_pc' = "join" /\ UNCHANGED req_chan
       \/ /\ ~RequestChannelClosed /\ Len(req_chan) < ReqCap
          /\ req_chan' = Append(req_chan, ShutdownRequest)
          /\ ctl_pc' = "join"
       \/ /\ ~RequestChannelClosed /\ Len(req_chan) >= ReqCap /\ ctl_pc = "select"
          /\ ctl_pc' = "shutdown" /\ UNCHANGED req_chan
    /\ last_step' = [op |-> "Shutdown"]
    /\ UNCHANGED <<app, event_chan, ctl_req, tg_pc, tg_event, tg_then, dialogs_dirty>>

\* telegram_handle.await returns and main ends.
Join ==
    /\ ctl_pc = "join" /\ tg_pc = "done"
    /\ ctl_pc' = "exited"
    /\ last_step' = [op |-> "Join"]
    /\ UNCHANGED <<app, req_chan, event_chan, ctl_req, tg_pc, tg_event, tg_then, dialogs_dirty>>

\* What run_request_loop does once a send of its has completed.
TgAfter(then) ==
    /\ tg_pc' = IF then = "done" THEN "done" ELSE "select"
    /\ dialogs_dirty' = CASE then = "set_dirty" -> TRUE
                          [] then = "clear_dirty" -> FALSE
                          [] OTHER -> dialogs_dirty
\* event_tx.try_send in place of send: the event is dropped when the channel
\* is full.
TgSend_drops_when_full(ev, then) ==
    IF Len(event_chan) < EvtCap
    THEN event_chan' = Append(event_chan, ev) /\ TgAfter(then)
         /\ UNCHANGED <<tg_event, tg_then>>
    ELSE TgAfter(then) /\ UNCHANGED <<event_chan, tg_event, tg_then>>

\* event_tx.send(ev).await in run_request_loop: completes at once when the
\* channel has room and otherwise suspends the task until it has.
TgSend(ev, then) ==
    IF Len(event_chan) < EvtCap
    THEN event_chan' = Append(event_chan, ev) /\ TgAfter(then)
         /\ UNCHANGED <<tg_event, tg_then>>
    ELSE tg_pc' = "emit" /\ tg_event' = ev /\ tg_then' = then
         /\ UNCHANGED <<event_chan, dialogs_dirty>>

\* The events a request can be answered with (load_dialogs, load_messages and
\* send_message each return Ok or Err).
Answers(E, req) ==
    CASE req.type = "LoadDialogs" ->
            {DialogsLoadedEvent(dialogs) : dialogs \in E.dialog_lists}
                \cup {ErrorEvent("load dialogs failed") : x \in E.failures}
      [] req.type = "LoadMessages" ->
            {MessagesLoadedEvent(req.dialog_id, messages) : messages \in E.message_lists}
                \cup {ErrorEvent("load messages failed") : x \in E.failures}
      [] req.type = "SendMessage" ->
            {MessageSentEvent(req.dialog_id, Message(n)) : n \in E.sent_ids}
                \cup {ErrorEvent("send message failed") : x \in E.failures}

\* select! arm: req_rx.recv() yields a request
TgRequest(E) ==
    /\ tg_pc = "select" /\ req_chan # <<>>
    /\ req_chan' = Tail(req_chan)
    /\ IF Head(req_chan).type = "Shutdown"
       THEN tg_pc' = "done" /\ UNCHANGED <<event_chan, tg_event, tg_then, dialogs_dirty>>
       ELSE \E ev \in Answers(E, Head(req_chan)) : TgSend(ev, "select")
    /\ last_step' = [op |-> "Backend"]
    /\ UNCHANGED <<app, ctl_pc, ctl_req>>

\* select! arm: updates.next() yields an incoming message, or fails
TgUpdate(E) ==
    /\ tg_pc = "select"
    /\ \/ \E m \in E.incoming :
            TgSend(IncomingMessageEvent(m[1], Message(m[2])), "set_dirty")
       \/ E.update_failures # {} /\ TgSend(ErrorEvent("updates failed"), "done")
    /\ last_step' = [op |-> "Backend"]
    /\ UNCHANGED <<app, req_chan, ctl_pc, ctl_req>>

\* select! arm: refresh_tick.tick() with dialogs_dirty set
TgRefresh(E) ==
    /\ tg_pc = "select" /\ dialogs_dirty
    /\ \/ \E dialogs \in E.dialog_lists :
            TgSend(DialogsLoadedEvent(dialogs), "clear_dirty")
       \/ E.failures # {} /\ TgSend(ErrorEvent("load dialogs failed"), "select")
    /\ last_step' = [op |-> "Backend"]
    /\ UNCHANGED <<app, req_chan, ctl_pc, ctl_req>>

\* run_request_loop suspended in event_tx.send(..).await: the channel gets room.
TgSendResume ==
    /\ tg_pc = "emit" /\ Len(event_chan) < EvtCap
    /\ event_chan' = Append(event_chan, tg_event)
    /\ TgAfter(tg_then)
    /\ tg_event' = NoEvent /\ tg_then' = "select"
    /\ last_step' = [op |-> "Backend"]
    /\ UNCHANGED <<app, req_chan, ctl_pc, ctl_req>>

\* One step of the system in environment E.  E names what the terminal and
\* the backend can supply: the key events (keys), the dialog lists load_dialogs
\* returns (dialog_lists), the message lists load_messages returns
\* (message_lists), the <<dialog id, message id>> of the incoming messages
\* (incoming), the ids of the messages send_message returns (sent_ids), and
\* whether the backend's calls (failures) and its update stream
\* (update_failures) can fail: a non-empty set means they can; max_compose is
\* the longest compose text typed.
NextIn(E) ==
    \/ Tick
    \/ KeyEvent(E)
    \/ TelegramEvent
    \/ ChannelClosed
    \/ SendResume
    \/ Shutdown
    \/ Join
    \/ TgRequest(E)
    \/ TgUpdate(E)
    \/ TgRefresh(E)
    \/ TgSendResume

Keys(codes, chars) ==
    {Press(code) : code \in codes} \cup {PressChar(ch) : ch \in chars}

\* Selecting, searching and sorting chats while the dialog list is refreshed.
EnvSearch ==
    [ keys |-> Keys({"Up", "Down", "Esc", "Backspace"}, {"/", "s", " ", "q", "a"}),
      dialog_lists |-> BackendDialogLists,
      message_lists |-> {<<>>},
      incoming |-> {<<1, 1>>},
      sent_ids |-> {},
      failures |-> {},
      update_failures |-> {"Err"},
      max_compose |-> MaxCompose ]

Next == NextIn(EnvSearch)

Spec == Init /\ [][Next]_vars

\* Scrolling the transcript and searching while messages come in.
EnvScroll ==
    [ keys |-> Keys({"Up", "Down", "Tab", "Esc", "Backspace"}, {"/", " "}),
      dialog_lists |-> BackendDialogLists,
      message_lists |-> {<<>>},
      incoming |-> {<<1, 1>>},
      sent_ids |-> {},
      failures |-> {},
      update_failures |-> {"Err"},
      max_compose |-> MaxCompose ]

NextScroll == NextIn(EnvScroll)

SpecScroll == Init /\ [][NextScroll]_vars

\* Messages loaded and pushed for both dialogs while the selection moves.
EnvBadges ==
    [ keys |-> Keys({"Up", "Down", "Tab"}, {}),
      dialog_lists |-> BackendDialogLists,
      message_lists |-> BackendMessageLists,
      incoming |-> {<<1, 1>>, <<2, 1>>},
      sent_ids |-> {},
      failures |-> {},
      update_failures |-> {"Err"},
      max_compose |-> MaxCompose ]

NextBadges == NextIn(EnvBadges)

SpecBadges == Init /\ [][NextBadges]_vars

\* Composing and sending, with a backend whose calls can fail, until the user quits.
EnvCompose ==
    [ keys |-> Keys({"Down", "Enter", "Esc"}, {"i", "q", " "}),
      dialog_lists |-> {<<Dialog1, Dialog2>>},
      message_lists |-> BackendMessageLists,
      incoming |-> {<<1, 1>>},
      sent_ids |-> {2},
      failures |-> {"Err"},
      update_failures |-> {"Err"},
      max_compose |-> MaxCompose ]

NextCompose == NextIn(EnvCompose)

SpecCompose == Init /\ [][NextCompose]_vars

\* Composing and submitting: one dialog, texts of up to MaxSubmitText characters
\* with blanks before and after, sends answered or not, the backend ending.
EnvSubmit ==
    [ keys |-> Keys({"Enter", "Backspace"}, {"i", "q", " "}),
      dialog_lists |-> {<<Dialog2>>},
      message_lists |-> {<<>>},
      incoming |-> {<<2, 1>>},
      sent_ids |-> {2},
      failures |-> {},
      update_failures |-> {"Err"},
      max_compose |-> MaxSubmitText ]

NextSubmit == NextIn(EnvSubmit)

SpecSubmit == Init /\ [][NextSubmit]_vars
----------------------------------------------------------------------------
\* The layout arithmetic of the message pane on its own.

\* usize::saturating_sub
saturating_sub(a, b) == IF a > b THEN a - b ELSE 0

\* usize::div_ceil
div_ceil(a, b) == (a + b - 1) \div b

\* message_top_offset with the scroll offset counted from the first row
message_top_offset_from_top(total_lines, viewport_height, scroll_from_bottom) ==
    LET max_top_offset == saturating_sub(total_lines, viewport_height)
    IN  IF scroll_from_bottom < max_top_offset THEN scroll_from_bottom ELSE max_top_offset

message_top_offset(total_lines, viewport_height, scroll_from_bottom) ==
    LET max_top_offset == saturating_sub(total_lines, viewport_height)
        min_offset == IF scroll_from_bottom < max_top_offset
                      THEN scroll_from_bottom ELSE max_top_offset
    IN  saturating_sub(max_top_offset, min_offset)

\* largest row count, viewport height and scroll offset laid out
MaxRows == 5

InitView ==
    /\ app = AppState_new
    /\ req_chan = <<>>
    /\ event_chan = <<>>
    /\ ctl_pc = "select"
    /\ ctl_req = NoRequest
    /\ tg_pc = "select"
    /\ tg_event = NoEvent
    /\ tg_then = "select"
    /\ dialogs_dirty = FALSE
    /\ last_step = [op |-> "Init"]

\* message_top_offset(content_lines, viewport_height, scroll), as draw calls it
TopOffset ==
    /\ \E total_lines \in 0..MaxRows, viewport_height \in 0..MaxRows,
          scroll_from_bottom \in 0..MaxRows :
          last_step' = [op |-> "message_top_offset", total_lines |-> total_lines,
                        viewport_height |-> viewport_height,
                        scroll_from_bottom |-> scroll_from_bottom,
                        result |-> message_top_offset(total_lines, viewport_height,
                                                      scroll_from_bottom)]
    /\ UNCHANGED <<app, req_chan, event_chan, ctl_pc, ctl_req, tg_pc, tg_event, tg_then,
                   dialogs_dirty>>

\* str::split('\n'): the segments between the line breaks, empty ones included
RECURSIVE split_lines(_)
split_lines(line) ==
    IF \A i \in 1..Len(line) : line[i] # "\n"
    THEN <<line>>
    ELSE LET at == CHOOSE i \in 1..Len(line) :
                       line[i] = "\n" /\ \A j \in 1..(i - 1) : line[j] # "\n"
         IN  <<SubSeq(line, 1, at - 1)>> \o split_lines(SubSeq(line, at + 1, Len(line)))

RECURSIVE sum(_)
sum(counts) == IF counts = <<>> THEN 0 ELSE Head(counts) + sum(Tail(counts))

\* wrapped_line_count that gives an empty segment no row
wrapped_line_count_skips_empty(line, width) ==
    IF width = 0 THEN 0
    ELSE sum([k \in 1..Len(split_lines(line)) |-> div_ceil(Len(split_lines(line)[k]), width)])

wrapped_line_count(line, width) ==
    IF width = 0 THEN 0
    ELSE LET segments == split_lines(line)
             rows(segment) ==
                 LET segment_width == Len(segment)
                     wrapped == div_ceil(segment_width, width)
                 IN  IF wrapped > 1 THEN wrapped ELSE 1
         IN  sum([k \in 1..Len(segments) |-> rows(segments[k])])

total_wrapped_line_count(lines, width) ==
    IF width = 0 THEN 0
    ELSE sum([k \in 1..Len(lines) |-> wrapped_line_count(lines[k], width)])

\* longest logical line, most logical lines and widest viewport laid out
MaxLineLen == 3
MaxLines == 2
MaxWidth == 3

RenderedLines == UNION {[1..n -> {"a", "\n"}] : n \in 0..MaxLineLen}

\* wrapped_line_count(line, width), as the tests of tui.rs call it
WrappedLineCount ==
    /\ \E line \in RenderedLines, width \in 0..MaxWidth :
          last_step' = [op |-> "wrapped_line_count", line |-> line, width |-> width,
                        result |-> wrapped_line_count(line, width)]
    /\ UNCHANGED <<app, req_chan, event_chan, ctl_pc, ctl_req, tg_pc, tg_event, tg_then,
                   dialogs_dirty>>

\* total_wrapped_line_count(&lines, viewport_width), as draw calls it
TotalWrappedLineCount ==
    /\ \E count \in 0..MaxLines, width \in 0..MaxWidth :
          \E lines \in [1..count -> RenderedLines] :
              last_step' = [op |-> "total_wrapped_line_count", lines |-> lines,
                            width |-> width,
                            result |-> total_wrapped_line_count(lines, width)]
    /\ UNCHANGED <<app, req_chan, event_chan, ctl_pc, ctl_req, tg_pc, tg_event, tg_then,
                   dialogs_dirty>>

NextView ==
    \/ TopOffset
    \/ WrappedLineCount
    \/ TotalWrappedLineCount

SpecView == InitView /\ [][NextView]_vars


----------------------------------------------------------------------------
\* The key mapper on its own: every key event in every mode and focus.
\* Searching while a load of messages is in flight, with both tasks scheduled
\* fairly: an arm of a select! that stays ready is taken, and a suspended send
\* resumes once the channel has room.
EnvLoad ==
    [ keys |-> Keys({"Esc", "Backspace"}, {"/", " "}),
      dialog_lists |-> {<<Dialog2>>},
      message_lists |-> {<<>>},
      incoming |-> {<<2, 1>>},
      sent_ids |-> {},
      failures |-> {},
      update_failures |-> {"Err"},
      max_compose |-> MaxCompose ]

NextLoad == NextIn(EnvLoad)

SpecLoad ==
    /\ Init /\ [][NextLoad]_vars
    /\ WF_vars(TelegramEvent)
    /\ WF_vars(SendResume)
    /\ WF_vars(TgRequest(EnvLoad))
    /\ WF_vars(TgSendResume)

\* Sending from one dialog and moving to the other, with the transcript
\* scrolled and messages coming in.
EnvSent ==
    [ keys |-> Keys({"Tab", "Up", "Down", "Enter"}, {"i", "q"}),
      dialog_lists |-> {<<Dialog1, Dialog2>>},
      message_lists |-> {<<>>},
      incoming |-> {<<1, 1>>},
      sent_ids |-> {2},
      failures |-> {},
      update_failures |-> {"Err"},
      max_compose |-> MaxCompose ]

NextSent == NextIn(EnvSent)

SpecSent == Init /\ [][NextSent]_vars

\* The dialog list refreshed again and again, to other dialogs, to the same
\* ones and to none, with no key that moves the selection: every LoadMessages
\* request comes from main's DialogsLoaded arm.
EnvRefresh ==
    [ keys |-> Keys({"Tab"}, {"q"}),
      dialog_lists |-> BackendDialogLists \cup {<<>>},
      message_lists |-> BackendMessageLists,
      incoming |-> {<<1, 1>>},
      sent_ids |-> {},
      failures |-> {},
      update_failures |-> {"Err"},
      max_compose |-> MaxCompose ]

NextRefresh == NextIn(EnvRefresh)

SpecRefresh == Init /\ [][NextRefresh]_vars

\* Typing and erasing in the three modes: the compose text, the search query,
\* and keys that are no command in Normal mode.
EnvEdit ==
    [ keys |-> Keys({"Esc", "Backspace"}, {"/", "i", "a", " "}),
      dialog_lists |-> {<<Dialog1, Dialog2>>},
      message_lists |-> {<<>>},
      incoming |-> {<<1, 1>>},
      sent_ids |-> {},
      failures |-> {},
      update_failures |-> {"Err"},
      max_compose |-> MaxCompose ]

NextEdit == NextIn(EnvEdit)

SpecEdit == Init /\ [][NextEdit]_vars


AllChars ==
    {"q", "Q", "cy_j", "CY_J", "i", "I", "cy_sh", "CY_SH", "s", "S", "cy_y", "CY_Y",
     "/", ".", "a", "A", " "}
AllKeys ==
    Keys({"Up", "Down", "Tab", "BackTab", "Enter", "Backspace", "Esc", "F1"}, AllChars)
        \cup {[kind |-> "Release", code |-> "Char", ch |-> ch] : ch \in {"q", "i", "s", "/"}}
        \cup {[kind |-> "Release", code |-> code, ch |-> ""] : code \in {"Tab", "Esc", "Enter"}}

InitKeys ==
    /\ \E ui_mode \in {"Normal", "Compose", "Search"}, focus \in {"Chats", "Messages", "Input"} :
          app = [AppState_new EXCEPT !.ui_mode = ui_mode, !.focus = focus]
    /\ req_chan = <<>>
    /\ event_chan = <<>>
    /\ ctl_pc = "select"
    /\ ctl_req = NoRequest
    /\ tg_pc = "select"
    /\ tg_event = NoEvent
    /\ tg_then = "select"
    /\ dialogs_dirty = FALSE
    /\ last_step = [op |-> "Init"]

\* map_key_event(key, app.ui_mode, app.focus), as main calls it
MapKey ==
    /\ \E key \in AllKeys :
          last_step' = [op |-> "map_key_event", key |-> key,
                        cmd |-> map_key_event(key, app.ui_mode, app.focus)]
    /\ UNCHANGED <<app, req_chan, event_chan, ctl_pc, ctl_req, tg_pc, tg_event, tg_then,
                   dialogs_dirty>>

NextKeys == MapKey

SpecKeys == InitKeys /\ [][NextKeys]_vars

----------------------------------------------------------------------------
\* The AppState operations called directly, as the unit tests of app.rs call
\* them: any operation in any order, on a state built by the operations.

\* longest search query typed into the store
MaxStoreQuery == 2

Dialog3 == [id |-> 3, title |-> <<"A">>]

InitStore ==
    /\ app = AppState_new
    /\ req_chan = <<>>
    /\ event_chan = <<>>
    /\ ctl_pc = "select"
    /\ ctl_req = NoRequest
    /\ tg_pc = "select"
    /\ tg_event = NoEvent
    /\ tg_then = "select"
    /\ dialogs_dirty = FALSE
    /\ last_step = [op |-> "Init"]

\* A call of an AppState operation: the state it leaves, and the call recorded.
StoreCall(t, call) ==
    /\ app' = t
    /\ last_step' = call
    /\ UNCHANGED <<req_chan, event_chan, ctl_pc, ctl_req, tg_pc, tg_event, tg_then,
                   dialogs_dirty>>

StoreDialogsLoaded(E) ==
    \E dialogs \in E.dialog_lists :
        StoreCall(on_dialogs_loaded(app, dialogs),
                  [op |-> "on_dialogs_loaded", dialogs |-> dialogs])

StoreMessagesLoaded(E) ==
    \E dialog_id \in E.message_dialogs, messages \in E.message_lists :
        StoreCall(on_messages_loaded(app, dialog_id, messages),
                  [op |-> "on_messages_loaded", dialog_id |-> dialog_id,
                   messages |-> messages,
                   count_before |-> dialog_new_message_count(app, dialog_id)])

StoreMessageSent(E) ==
    \E dialog_id \in E.message_dialogs, id \in E.message_ids :
        StoreCall(on_message_sent(app, dialog_id, Message(id)),
                  [op |-> "on_message_sent", dialog_id |-> dialog_id,
                   message |-> Message(id),
                   appended |-> message_is_missing(app, dialog_id, Message(id))])

StoreIncomingMessage(E) ==
    \E dialog_id \in E.message_dialogs, id \in E.message_ids :
        StoreCall(on_incoming_message(app, dialog_id, Message(id)),
                  [op |-> "on_incoming_message", dialog_id |-> dialog_id,
                   message |-> Message(id),
                   appended |-> message_is_missing(app, dialog_id, Message(id))])

StoreSelectPrev ==
    StoreCall(select_prev(app), [op |-> "select_prev", result |-> select_prev_result(app)])

StoreSelectNext ==
    StoreCall(select_next(app), [op |-> "select_next", result |-> select_next_result(app)])

StoreScrollUp ==
    /\ app.message_scroll_from_bottom < MaxScroll
    /\ StoreCall(scroll_messages_up(app), [op |-> "scroll_messages_up"])

StoreScrollDown ==
    StoreCall(scroll_messages_down(app), [op |-> "scroll_messages_down"])

StoreStartSearch ==
    /\ app.ui_mode = "Normal"
    /\ StoreCall(start_search(app), [op |-> "start_search"])

StoreExitOrClearSearch ==
    /\ app.ui_mode = "Search"
    /\ StoreCall(exit_or_clear_search(app), [op |-> "exit_or_clear_search"])

StoreToggleSortMode ==
    StoreCall(toggle_sort_mode(app), [op |-> "toggle_sort_mode"])

StoreInsertChar(E) ==
    /\ app.ui_mode = "Search"
    /\ Len(app.search_query) < MaxStoreQuery
    /\ \E ch \in E.chars :
          StoreCall(insert_char(app, ch), [op |-> "insert_char", ch |-> ch])

StoreBackspace ==
    /\ app.ui_mode = "Search"
    /\ StoreCall(backspace(app), [op |-> "backspace"])

\* The transcript operations: loads, sent and incoming messages, selection
\* moves and scrolling.
EnvStoreMessages ==
    [ dialog_lists |-> {<<Dialog1, Dialog2>>, <<Dialog2>>},
      message_dialogs |-> {1, 2},
      message_ids |-> {1, 2},
      message_lists |-> {<<>>, <<Message(1)>>, <<Message(2), Message(1)>>} ]

NextStoreMessages ==
    \/ StoreDialogsLoaded(EnvStoreMessages)
    \/ StoreMessagesLoaded(EnvStoreMessages)
    \/ StoreMessageSent(EnvStoreMessages)
    \/ StoreIncomingMessage(EnvStoreMessages)
    \/ StoreSelectPrev
    \/ StoreSelectNext
    \/ StoreScrollUp
    \/ StoreScrollDown

SpecStoreMessages == InitStore /\ [][NextStoreMessages]_vars

\* The dialog-list operations: loads, search, sort mode and selection moves.
EnvStoreDialogs ==
    [ dialog_lists |-> {<<Dialog1, Dialog2, Dialog3>>, <<Dialog3, Dialog1, Dialog2>>,
                        <<Dialog2>>, <<>>},
      chars |-> {"q", "a", "A"} ]

NextStoreDialogs ==
    \/ StoreDialogsLoaded(EnvStoreDialogs)
    \/ StoreSelectPrev
    \/ StoreSelectNext
    \/ StoreStartSearch
    \/ StoreExitOrClearSearch
    \/ StoreToggleSortMode
    \/ StoreInsertChar(EnvStoreDialogs)
    \/ StoreBackspace

SpecStoreDialogs == InitStore /\ [][NextStoreDialogs]_vars

----------------------------------------------------------------------------
\* Properties.

\* The step taken is main's arm for a key event that mapped to command name.
KeyStep(name) == last_step'.op = "Key" /\ last_step'.cmd.cmd = name

\* The step taken is main's arm for a backend event of the given type.
EventStep(type) == last_step'.op = "Event" /\ last_step'.event.type = type

\* What the handler of the step taken computed from the state before it.
StepOutcome ==
    IF last_step'.op = "Key" THEN on_command(app, last_step'.cmd)
    ELSE on_telegram_event(app, last_step'.event)

\* C1: in every reachable state of the event loop the selected dialog id is an
\* id of visible_dialogs(), and it is absent exactly when visible_dialogs() is
\* empty.
C1_SelectionIsVisible ==
    LET visible == visible_dialog_ids(app)
    IN  IF visible = <<>>
        THEN app.selected_dialog_id = NoneId
        ELSE app.selected_dialog_id # NoneId /\ seq_contains(visible, app.selected_dialog_id)

\* C1 happens: with the second dialog of the list selected, a character typed
\* into the query left only the first one visible, and the selection is on it.
C1_Witness ==
    /\ last_step.op = "Key" /\ last_step.cmd.cmd = "InsertChar"
    /\ app.ui_mode = "Search" /\ app.search_query = <<"q">>
    /\ app.dialogs = <<Dialog1, Dialog2>>
    /\ visible_dialog_ids(app) = <<1>>
    /\ app.selected_dialog_id = 1
    /\ app.is_loading_messages

\* C2: an exit request in Search mode with a non-empty query clears the query
\* and stays in Search mode; an exit request with an empty query leaves for
\* Normal mode.
C2_ExitSearchTakesTwoSteps ==
    [][ (KeyStep("ExitComposeOrSearch") /\ app.ui_mode = "Search")
            => IF app.search_query # <<>>
               THEN app'.search_query = <<>> /\ app'.ui_mode = "Search"
               ELSE app'.ui_mode = "Normal" ]_vars

\* C3: in Compose mode, in every focus, a press of a character key maps to
\* InsertChar of that character.
C3_ComposeTypesEveryChar ==
    ( /\ last_step.op = "map_key_event"
      /\ app.ui_mode = "Compose"
      /\ last_step.key.kind = "Press" /\ last_step.key.code = "Char" )
        => last_step.cmd = [cmd |-> "InsertChar", ch |-> last_step.key.ch]

\* C4: in Search mode, in every focus, a press of a compose, quit or sort alias
\* character maps to InsertChar of that character.
C4_SearchTypesAliasChars ==
    ( /\ last_step.op = "map_key_event"
      /\ app.ui_mode = "Search"
      /\ last_step.key.kind = "Press"
      /\ \/ is_compose_hotkey(last_step.key)
         \/ is_quit_hotkey(last_step.key)
         \/ is_sort_hotkey(last_step.key) )
        => last_step.cmd = [cmd |-> "InsertChar", ch |-> last_step.key.ch]

\* C5: when a handler of main issues a LoadMessages or SendMessage request while
\* the request channel is full, main does not wait: it takes the error arm
\* (last error set, the flag just set rolled back) and is back at its select.
C5_FullChannelGivesError ==
    [][ ( /\ last_step'.op \in {"Key", "Event"}
          /\ StepOutcome.req.type \in {"LoadMessages", "SendMessage"}
          /\ Len(req_chan) >= ReqCap )
            => /\ ctl_pc' = "select"
               /\ app' = send_failed(StepOutcome.app, StepOutcome.req) ]_vars

\* C6: once the terminate flag is set the shutdown handshake completes: until
\* main has exited there is always a step main or the backend task can take.
C6_ShutdownNeverStuck ==
    app.should_quit => (ctl_pc = "exited" \/ ENABLED NextCompose)

\* C7: after the iteration that receives MessagesLoaded(d, list), d's stored
\* list is list, d has no badge counter and the loading-messages flag is clear,
\* whichever dialog is selected.
C7_MessagesLoadedIsApplied ==
    [][ EventStep("MessagesLoaded")
            => LET d == last_step'.event.dialog_id
               IN  /\ d \in DOMAIN app'.messages_by_dialog
                   /\ app'.messages_by_dialog[d] = last_step'.event.messages
                   /\ d \notin DOMAIN app'.new_message_count_by_dialog
                   /\ ~app'.is_loading_messages ]_vars

\* The step applies a load or send answer of the family of the error that the
\* last-error slot holds, and main's own follow-up request does not fail.
AnswerOfTheErrorsFamily ==
    /\ last_step'.op = "Event"
    /\ \/ /\ last_step'.event.type = "DialogsLoaded"
          /\ app.last_error = "load dialogs failed"
       \/ /\ last_step'.event.type = "MessagesLoaded"
          /\ last_step'.event.dialog_id = app.selected_dialog_id
          /\ app.last_error = "load messages failed"
       \/ /\ last_step'.event.type = "MessageSent"
          /\ app.last_error = "send message failed"
    /\ ~(StepOutcome.req.type # "NoRequest" /\ RequestChannelClosed)

\* C8: the next successful completion of an operation of the family of the
\* error leaves last error empty.
C8_SuccessClearsLastError ==
    [][ AnswerOfTheErrorsFamily => app'.last_error = "None" ]_vars

\* C9: every step that changes the selected dialog id, to another id or to
\* absent, leaves the pending indicator at 0.
C9_SelectionChangeResetsPending ==
    [][ app'.selected_dialog_id # app.selected_dialog_id
            => app'.pending_new_messages_for_selected = 0 ]_vars

\* C10: an IncomingMessage(d, m) with an id not yet in d's list, d not being the
\* selected dialog, adds exactly 1 to d's badge counter and leaves the pending
\* indicator, the scroll offset and every other badge counter as they were.
C10_IncomingForOtherDialog ==
    [][ ( /\ EventStep("IncomingMessage")
          /\ last_step'.event.dialog_id # app.selected_dialog_id
          /\ message_is_missing(app, last_step'.event.dialog_id, last_step'.event.message) )
            => LET d == last_step'.event.dialog_id
               IN  /\ dialog_new_message_count(app', d) = dialog_new_message_count(app, d) + 1
                   /\ app'.pending_new_messages_for_selected =
                          app.pending_new_messages_for_selected
                   /\ app'.message_scroll_from_bottom = app.message_scroll_from_bottom
                   /\ DOMAIN app'.new_message_count_by_dialog \ {d} =
                          DOMAIN app.new_message_count_by_dialog \ {d}
                   /\ \A o \in DOMAIN app.new_message_count_by_dialog \ {d} :
                          app'.new_message_count_by_dialog[o] =
                              app.new_message_count_by_dialog[o] ]_vars

\* C10 happens: the transcript of the selected dialog 2 is scrolled up with a
\* message pending, and an incoming message for dialog 1 was just counted on
\* dialog 1's badge.
C10_Witness ==
    /\ last_step.op = "Event" /\ last_step.event.type = "IncomingMessage"
    /\ last_step.event.dialog_id = 1
    /\ app.selected_dialog_id = 2
    /\ app.message_scroll_from_bottom > 0
    /\ app.pending_new_messages_for_selected = 1
    /\ dialog_new_message_count(app, 1) = 1

\* C11: an IncomingMessage(d, m) for the selected dialog d while the scroll
\* offset is 0 appends m to d's list if its id is new (and leaves the list as
\* it is otherwise), and changes neither a badge counter nor the pending
\* indicator.
C11_IncomingForSelectedAtBottom ==
    [][ ( /\ EventStep("IncomingMessage")
          /\ last_step'.event.dialog_id = app.selected_dialog_id
          /\ app.message_scroll_from_bottom = 0 )
            => LET d == last_step'.event.dialog_id
                   m == last_step'.event.message
                   before == messages_or_default(app, d)
               IN  /\ d \in DOMAIN app'.messages_by_dialog
                   /\ app'.messages_by_dialog[d] =
                          IF message_is_missing(app, d, m) THEN Append(before, m) ELSE before
                   /\ app'.new_message_count_by_dialog = app.new_message_count_by_dialog
                   /\ app'.pending_new_messages_for_selected =
                          app.pending_new_messages_for_selected
                   /\ app'.message_scroll_from_bottom = 0 ]_vars

\* C11 happens: with a badge on dialog 1 and the selected dialog 2 shown at the
\* bottom, an incoming message for dialog 2 was appended to its list.
C11_Witness ==
    /\ last_step.op = "Event" /\ last_step.event.type = "IncomingMessage"
    /\ last_step.event.dialog_id = 2
    /\ app.selected_dialog_id = 2
    /\ app.message_scroll_from_bottom = 0
    /\ 2 \in DOMAIN app.messages_by_dialog
    /\ app.messages_by_dialog[2] = <<Message(1)>>
    /\ dialog_new_message_count(app, 1) = 1
    /\ app.pending_new_messages_for_selected = 0

\* C12: an IncomingMessage(d, m) with a new id for the selected dialog d while
\* the scroll offset is above 0 adds exactly 1 to the pending indicator and
\* changes no badge counter; a scroll down that reaches offset 0 sets the
\* pending indicator to 0 and one that stays above 0 keeps it.
C12_PendingWhileScrolledUp ==
    [][ /\ ( /\ EventStep("IncomingMessage")
             /\ last_step'.event.dialog_id = app.selected_dialog_id
             /\ app.message_scroll_from_bottom > 0
             /\ message_is_missing(app, last_step'.event.dialog_id, last_step'.event.message) )
            => /\ app'.pending_new_messages_for_selected =
                      app.pending_new_messages_for_selected + 1
               /\ app'.new_message_count_by_dialog = app.new_message_count_by_dialog
               /\ app'.message_scroll_from_bottom = app.message_scroll_from_bottom
        /\ ( KeyStep("ScrollMessagesDown") /\ app.message_scroll_from_bottom > 0 )
            => /\ app'.message_scroll_from_bottom = app.message_scroll_from_bottom - 1
               /\ app'.pending_new_messages_for_selected =
                      IF app'.message_scroll_from_bottom = 0
                      THEN 0
                      ELSE app.pending_new_messages_for_selected ]_vars

\* C12 happens: a message came in for the selected dialog at offset 2, and a
\* scroll down to offset 1 has kept it pending.
C12_Witness ==
    /\ last_step.op = "Key" /\ last_step.cmd.cmd = "ScrollMessagesDown"
    /\ app.selected_dialog_id # NoneId
    /\ app.message_scroll_from_bottom = 1
    /\ app.pending_new_messages_for_selected = 1
    /\ selected_dialog_messages(app) # <<>>

\* The ids of a stored message list are pairwise distinct.
DistinctIds(messages) ==
    \A i, j \in 1..Len(messages) : messages[i].id = messages[j].id => i = j

\* C13: on_message_sent and on_incoming_message with a message whose id is
\* already in the dialog's list leave that list as it is; such an
\* on_incoming_message changes no counter; and no stored list ever holds two
\* messages with the same id (the loaded lists have distinct ids).
C13_DuplicateIsNotAppended ==
    /\ [](\A d \in DOMAIN app.messages_by_dialog : DistinctIds(app.messages_by_dialog[d]))
    /\ [][ /\ ( /\ last_step'.op \in {"on_message_sent", "on_incoming_message"}
                /\ ~message_is_missing(app, last_step'.dialog_id, last_step'.message) )
               => app'.messages_by_dialog = app.messages_by_dialog
           /\ ( /\ last_step'.op = "on_incoming_message"
                /\ ~message_is_missing(app, last_step'.dialog_id, last_step'.message) )
               => /\ app'.new_message_count_by_dialog = app.new_message_count_by_dialog
                  /\ app'.pending_new_messages_for_selected =
                         app.pending_new_messages_for_selected
                  /\ app'.message_scroll_from_bottom = app.message_scroll_from_bottom ]_vars

\* C13 happens: dialog 1, not selected, got messages 1 and 2 (badge 2), and an
\* incoming message with an id it already holds was just refused.
C13_Witness ==
    /\ last_step.op = "on_incoming_message"
    /\ ~last_step.appended
    /\ last_step.dialog_id = 1 /\ last_step.message = Message(1)
    /\ app.selected_dialog_id = 2
    /\ 1 \in DOMAIN app.messages_by_dialog
    /\ app.messages_by_dialog[1] = <<Message(1), Message(2)>>
    /\ dialog_new_message_count(app, 1) = 2

\* C14: on_messages_loaded(d, list) leaves no badge counter for d, whether or
\* not d is the selected dialog, and leaves the badge counter of every other
\* dialog as it was.
C14_LoadClearsOnlyThatBadge ==
    [][ last_step'.op = "on_messages_loaded"
            => LET d == last_step'.dialog_id
               IN  /\ d \notin DOMAIN app'.new_message_count_by_dialog
                   /\ dialog_new_message_count(app', d) = 0
                   /\ DOMAIN app'.new_message_count_by_dialog =
                          DOMAIN app.new_message_count_by_dialog \ {d}
                   /\ \A o \in DOMAIN app'.new_message_count_by_dialog :
                          app'.new_message_count_by_dialog[o] =
                              app.new_message_count_by_dialog[o] ]_vars

\* C14 happens: dialog 1, not selected and with a badge of 2, had its messages
\* loaded: its counter is gone and the counter of dialog 2 is still there.
C14_Witness ==
    /\ last_step.op = "on_messages_loaded"
    /\ last_step.dialog_id = 1
    /\ last_step.count_before = 2
    /\ app.selected_dialog_id = 2
    /\ dialog_new_message_count(app, 1) = 0
    /\ dialog_new_message_count(app, 2) = 1

\* C15: on_dialogs_loaded of a non-empty list into a fresh state selects the
\* first dialog.  With the selection at position p of the visible ids,
\* select_prev returns false and changes nothing when p is the first position
\* and otherwise selects position p - 1 and returns true; select_next returns
\* false and changes nothing when p is the last position and otherwise selects
\* position p + 1 and returns true.
C15_SelectionMovesWithinBounds ==
    [][ LET visible == visible_dialog_ids(app)
            p == position(visible, app.selected_dialog_id)
        IN  /\ ( /\ last_step'.op = "on_dialogs_loaded"
                 /\ app = AppState_new
                 /\ last_step'.dialogs # <<>> )
                => app'.selected_dialog_id = last_step'.dialogs[1].id
            /\ ( last_step'.op = "select_prev" /\ p >= 1 )
                => IF p = 1
                   THEN ~last_step'.result /\ app' = app
                   ELSE last_step'.result /\ app'.selected_dialog_id = visible[p - 1]
            /\ ( last_step'.op = "select_next" /\ p >= 1 )
                => IF p = Len(visible)
                   THEN ~last_step'.result /\ app' = app
                   ELSE last_step'.result /\ app'.selected_dialog_id = visible[p + 1] ]_vars

\* C15 happens: in Alphabetical order, where the visible ids are 2, 3, 1,
\* select_next has moved the selection from dialog 2 to dialog 3.
C15_Witness ==
    /\ last_step.op = "select_next" /\ last_step.result
    /\ app.sort_mode = "Alphabetical"
    /\ visible_dialog_ids(app) = <<2, 3, 1>>
    /\ app.selected_dialog_id = 3

\* The lower-cased title holds the lower-cased query as a contiguous run.
TitleHoldsQuery(title, query) ==
    \E k \in 0..(Len(title) - Len(query)) :
        \A j \in 1..Len(query) : lower_char(title[k + j]) = lower_char(query[j])

\* The elements of a sequence.
Elements(seq) == {seq[i] : i \in 1..Len(seq)}

\* C16: visible_dialogs() holds exactly the dialogs whose lower-cased title
\* contains the lower-cased query (all of them when the query is empty), each
\* once; after a query edit in Search mode the selection is unchanged if it is
\* still visible, the first visible dialog if it is not, absent if nothing is
\* visible.
C16_SearchFiltersAndRevalidates ==
    /\ [] /\ Elements(visible_dialogs(app)) =
                 {d \in Elements(app.dialogs) :
                      app.search_query = <<>> \/ TitleHoldsQuery(d.title, app.search_query)}
          /\ Len(visible_dialogs(app)) = Cardinality(Elements(visible_dialogs(app)))
    /\ [][ last_step'.op \in {"insert_char", "backspace"}
              => LET after == visible_dialog_ids(app')
                 IN  app'.selected_dialog_id =
                         IF after = <<>> THEN NoneId
                         ELSE IF seq_contains(after, app.selected_dialog_id)
                              THEN app.selected_dialog_id
                              ELSE after[1] ]_vars

\* C16 happens: with dialog 3 first in the list and selected, the query "qa"
\* was typed: only dialog 1 is visible and the selection has moved to it.
C16_Witness ==
    /\ last_step.op = "insert_char"
    /\ app.ui_mode = "Search"
    /\ app.search_query = <<"q", "a">>
    /\ app.dialogs = <<Dialog3, Dialog1, Dialog2>>
    /\ visible_dialogs(app) = <<Dialog1>>
    /\ app.selected_dialog_id = 1

\* a sorts before b in Alphabetical mode: by lower-cased title, then by id.
SortsBefore(a, b) ==
    LET c == str_cmp(to_lowercase(a.title), to_lowercase(b.title))
    IN  c = "lt" \/ (c = "eq" /\ a.id < b.id)

\* The place of a dialog in the loaded list (the loaded ids are distinct).
LoadedIndex(dialog) ==
    CHOOSE i \in 1..Len(app.dialogs) : app.dialogs[i].id = dialog.id

\* C17: in Alphabetical mode visible_dialogs() ascends by lower-cased title with
\* ties broken by ascending id; in Recent mode it keeps the order of the loaded
\* list; both modes show the same set of dialogs.
C17_SortOrders ==
    LET visible == visible_dialogs(app)
        other == visible_dialogs([app EXCEPT !.sort_mode =
                                      IF @ = "Recent" THEN "Alphabetical" ELSE "Recent"])
    IN  /\ app.sort_mode = "Alphabetical"
            => \A i, j \in 1..Len(visible) : i < j => SortsBefore(visible[i], visible[j])
        /\ app.sort_mode = "Recent"
            => \A i, j \in 1..Len(visible) :
                   i < j => LoadedIndex(visible[i]) < LoadedIndex(visible[j])
        /\ Elements(visible) = Elements(other)
        /\ Len(visible) = Len(other)

\* C17 happens: the list was loaded as 3, 1, 2 and the sort mode toggled to
\* Alphabetical: dialogs 2 and 3, whose lower-cased titles are equal, come in id
\* order before dialog 1.
C17_Witness ==
    /\ last_step.op = "toggle_sort_mode"
    /\ app.sort_mode = "Alphabetical"
    /\ app.dialogs = <<Dialog3, Dialog1, Dialog2>>
    /\ app.search_query = <<>>
    /\ visible_dialogs(app) = <<Dialog2, Dialog3, Dialog1>>

\* The step hands req to req_tx.send: it is queued, or main is suspended in the
\* send with it.
Issued(req) ==
    \/ req_chan' = Append(req_chan, req) /\ ctl_pc' = "select"
    \/ req_chan' = req_chan /\ ctl_pc' = "send" /\ ctl_req' = req

\* The step hands no LoadMessages request to req_tx.send.
NoLoadIssued ==
    /\ \/ req_chan' = req_chan
       \/ /\ Len(req_chan') = Len(req_chan) + 1
          /\ SubSeq(req_chan', 1, Len(req_chan)) = req_chan
          /\ req_chan'[Len(req_chan')].type # "LoadMessages"
    /\ ctl_pc' = "send" => ctl_req'.type # "LoadMessages"

\* The selection after the step is present and differs from the one before.
SelectionChangedToSome ==
    app'.selected_dialog_id # app.selected_dialog_id /\ app'.selected_dialog_id # NoneId

\* C18 as stated: after a key event that changed the selection to a present id,
\* exactly one LoadMessages(new id, limit 50) has been sent and the
\* loading-messages flag is set; after a key event that left the selection
\* unchanged or absent no LoadMessages has been sent.
C18_OneLoadPerSelectionChange ==
    [][ /\ last_step'.op = "Key"
            => IF SelectionChangedToSome
               THEN /\ app'.is_loading_messages
                    /\ Issued(LoadMessagesRequest(app'.selected_dialog_id))
               ELSE NoLoadIssued
        /\ ( last_step'.op = "SendResume" /\ ctl_req.type = "LoadMessages" )
            => /\ req_chan' = Append(req_chan, ctl_req)
               /\ app'.is_loading_messages ]_vars

\* The Err arm of request_messages_for_selected was taken: nothing is sent, the
\* error is recorded and the loading flag is rolled back.
LoadRequestFailed ==
    /\ req_chan' = req_chan
    /\ ctl_pc' = "select"
    /\ app'.last_error = "failed to request messages"
    /\ ~app'.is_loading_messages

\* C18, amended: after a key event that changed the selection to a present id,
\* while the backend task is alive exactly one LoadMessages(new id, limit 50)
\* has been handed to the request channel and the loading-messages flag is set;
\* when the backend task has ended nothing is sent, last error is set and the
\* flag is rolled back.  After a key event that left the selection unchanged or
\* absent no LoadMessages is sent.
C18_OneLoadWhileBackendAlive ==
    [][ /\ last_step'.op = "Key"
            => IF SelectionChangedToSome
               THEN IF RequestChannelClosed
                    THEN LoadRequestFailed
                    ELSE /\ app'.is_loading_messages
                         /\ Issued(LoadMessagesRequest(app'.selected_dialog_id))
               ELSE NoLoadIssued
        /\ ( last_step'.op = "SendResume" /\ ctl_req.type = "LoadMessages" )
            => IF RequestChannelClosed
               THEN LoadRequestFailed
               ELSE /\ req_chan' = Append(req_chan, ctl_req)
                    /\ app'.is_loading_messages ]_vars

\* C18 happens: Down moved the selection from dialog 1 to dialog 2 while the
\* backend task was alive, and LoadMessages(2, 50) is the one request queued.
C18_Witness ==
    /\ last_step.op = "Key" /\ last_step.cmd.cmd = "MoveDown"
    /\ app.selected_dialog_id = 2
    /\ app.is_loading_messages
    /\ req_chan = <<LoadMessagesRequest(2)>>
    /\ ctl_pc = "select"
    /\ tg_pc # "done"

\* The Submit fails validation: no dialog is selected, or the compose text is
\* empty after trimming.
SubmitIsInvalid ==
    app.selected_dialog_id = NoneId \/ trim(app.compose_text) = <<>>

\* The step records the validation error and does nothing else.
OnlyValidationErrorSet ==
    /\ app' = [app EXCEPT !.last_error =
                   IF app.selected_dialog_id = NoneId
                   THEN "No chat selected"
                   ELSE "Message must not be empty"]
    /\ req_chan' = req_chan
    /\ ctl_pc' = "select"

\* The step changes nothing main owns and sends nothing.
SubmitIgnored ==
    app' = app /\ req_chan' = req_chan /\ ctl_pc' = "select"

\* C19 as stated: a Submit with no selected dialog, or with compose text empty
\* after trimming, sets last error, sends nothing and leaves every other field
\* as it was.
C19_InvalidSubmitSetsError ==
    [][ ( KeyStep("SubmitMessage") /\ SubmitIsInvalid ) => OnlyValidationErrorSet ]_vars

\* C19, amended: such a Submit made while no send is in flight sets last error,
\* sends nothing and leaves every other field as it was; made while a send is
\* in flight it changes nothing at all, last error included, and sends nothing.
C19_InvalidSubmitWhileIdle ==
    [][ ( KeyStep("SubmitMessage") /\ SubmitIsInvalid )
            => IF app.is_sending_message THEN SubmitIgnored ELSE OnlyValidationErrorSet ]_vars

\* C19 happens: with dialog 2 selected and no send in flight, a compose text of
\* two blanks was submitted and refused.
C19_Witness ==
    /\ last_step.op = "Key" /\ last_step.cmd.cmd = "SubmitMessage"
    /\ app.selected_dialog_id = 2
    /\ app.compose_text = <<" ", " ">>
    /\ app.last_error = "Message must not be empty"
    /\ ~app.is_sending_message
    /\ req_chan = <<>>

\* The Submit passes validation.
SubmitIsValid ==
    app.selected_dialog_id # NoneId /\ trim(app.compose_text) # <<>>

\* C20 as stated: a Submit with a dialog selected and compose text non-empty
\* after trimming marks the sending flag and issues one
\* SendMessage(selected id, trimmed text).
C20_ValidSubmitSends ==
    [][ /\ ( KeyStep("SubmitMessage") /\ SubmitIsValid )
            => /\ app'.is_sending_message
               /\ Issued(SendMessageRequest(app.selected_dialog_id, trim(app.compose_text)))
        /\ ( last_step'.op = "SendResume" /\ ctl_req.type = "SendMessage" )
            => /\ req_chan' = Append(req_chan, ctl_req)
               /\ app'.is_sending_message ]_vars

\* The Err arm of request_send_message was taken: nothing is sent, the error is
\* recorded and the sending flag is rolled back.
SendRequestFailed ==
    /\ req_chan' = req_chan
    /\ ctl_pc' = "select"
    /\ app'.last_error = "failed to request message send"
    /\ ~app'.is_sending_message

\* C20, amended: such a Submit made while no send is in flight and the backend
\* task is alive marks the sending flag, clears last error, keeps the compose
\* text and hands one SendMessage(selected id, trimmed text) to the request
\* channel; when the backend task has ended nothing is sent, last error is set
\* and the flag is rolled back; made while a send is in flight it changes
\* nothing and sends nothing.
C20_ValidSubmitWhileIdle ==
    [][ /\ ( KeyStep("SubmitMessage") /\ SubmitIsValid )
            => IF app.is_sending_message THEN SubmitIgnored
               ELSE IF RequestChannelClosed THEN SendRequestFailed
               ELSE /\ app' = [app EXCEPT !.is_sending_message = TRUE, !.last_error = "None"]
                    /\ Issued(SendMessageRequest(app.selected_dialog_id,
                                                 trim(app.compose_text)))
        /\ ( last_step'.op = "SendResume" /\ ctl_req.type = "SendMessage" )
            => IF RequestChannelClosed THEN SendRequestFailed
               ELSE /\ req_chan' = Append(req_chan, ctl_req)
                    /\ app'.is_sending_message ]_vars

\* C20 happens: the compose text " q" was submitted for dialog 2, and the one
\* request queued is SendMessage(2, "q").
C20_Witness ==
    /\ last_step.op = "Key" /\ last_step.cmd.cmd = "SubmitMessage"
    /\ app.selected_dialog_id = 2
    /\ app.compose_text = <<" ", "q">>
    /\ app.is_sending_message
    /\ app.last_error = "None"
    /\ req_chan = <<SendMessageRequest(2, <<"q">>)>>
    /\ tg_pc # "done"

\* C21: a backend Error(text) event sets last error to text and clears the
\* loading-dialogs, loading-messages and sending flags; the terminate flag,
\* dialogs, messages, selection, counters, scroll offset, mode and buffers stay
\* as they were, and no request is sent.
C21_ErrorEventClearsFlags ==
    [][ EventStep("Error")
            => /\ app' = [app EXCEPT !.last_error = last_step'.event.text,
                                     !.is_loading_dialogs = FALSE,
                                     !.is_loading_messages = FALSE,
                                     !.is_sending_message = FALSE]
               /\ ~app'.should_quit
               /\ UNCHANGED <<req_chan, ctl_pc, ctl_req>> ]_vars

\* C21 happens: a send failed while a text was being composed for a dialog with
\* messages; the Error event left the flags clear and the rest in place.
C21_Witness ==
    /\ last_step.op = "Event" /\ last_step.event = ErrorEvent("send message failed")
    /\ app.last_error = "send message failed"
    /\ ~app.is_sending_message /\ ~app.is_loading_messages /\ ~app.is_loading_dialogs
    /\ ~app.should_quit
    /\ app.ui_mode = "Compose" /\ app.compose_text # <<>>
    /\ app.selected_dialog_id # NoneId
    /\ selected_dialog_messages(app) # <<>>

\* C22: the closure of the event channel is observed only after every event
\* the backend emitted was received: the backend ends its loop on an update
\* failure only with the Error event in the channel behind all earlier events,
\* events are received in the order emitted, and recv() yields None only when
\* the task has ended and the channel is empty; that step sets last error and
\* the terminate flag and sends nothing, and after it the loop handles no
\* further key, event or closure.
C22_ClosureAfterEveryEvent ==
    [][ /\ ( tg_pc # "done" /\ tg_pc' = "done" )
            => \/ ( req_chan # <<>> /\ Head(req_chan) = ShutdownRequest
                    /\ req_chan' = Tail(req_chan) )
               \/ ( event_chan' # <<>>
                    /\ event_chan'[Len(event_chan')] = ErrorEvent("updates failed")
                    /\ SubSeq(event_chan', 1, Len(event_chan') - 1) = event_chan )
        /\ last_step'.op = "Event"
            => ( event_chan # <<>> /\ last_step'.event = Head(event_chan)
                 /\ event_chan' = Tail(event_chan) )
        /\ last_step'.op = "Closed"
            => /\ event_chan = <<>> /\ tg_pc = "done" /\ tg_event = NoEvent
               /\ app' = [app EXCEPT !.last_error = "telegram task exited",
                                     !.should_quit = TRUE]
               /\ UNCHANGED <<req_chan, event_chan, ctl_pc, ctl_req>>
        /\ app.should_quit
            => ( last_step'.op \notin {"Key", "Event", "Closed"} /\ app'.should_quit ) ]_vars

\* C22 happens: the update stream failed, the Error event was received, and the
\* closure was observed next.
C22_Witness ==
    /\ last_step.op = "Closed"
    /\ tg_pc = "done" /\ event_chan = <<>>
    /\ app.should_quit
    /\ app.last_error = "telegram task exited"
    /\ ctl_pc = "select"

\* C23: message_top_offset(total_rows, height, offset) equals
\* max_top - min(offset, max_top) with max_top = max(0, total_rows - height);
\* it lies in 0..max_top, equals max_top at offset 0, never increases when the
\* offset increases, and is 0 for every offset >= max_top and whenever
\* total_rows <= height.
C23_TopOffsetIsClamped ==
    last_step.op = "message_top_offset"
        => LET total_rows == last_step.total_lines
               height == last_step.viewport_height
               offset == last_step.scroll_from_bottom
               max_top == IF total_rows - height > 0 THEN total_rows - height ELSE 0
               min_offset == IF offset < max_top THEN offset ELSE max_top
           IN  /\ last_step.result = max_top - min_offset
               /\ last_step.result \in 0..max_top
               /\ message_top_offset(total_rows, height, 0) = max_top
               /\ \A larger \in offset..MaxRows :
                      message_top_offset(total_rows, height, larger) <= last_step.result
               /\ offset >= max_top => last_step.result = 0
               /\ total_rows <= height => last_step.result = 0

\* C23 happens: 3 rows in a viewport of 1, scrolled up by 1, start at row 1.
C23_Witness ==
    /\ last_step.op = "message_top_offset"
    /\ last_step.total_lines = 3 /\ last_step.viewport_height = 1
    /\ last_step.scroll_from_bottom = 1
    /\ last_step.result = 1

\* The least number of rows of the given width that hold count characters.
Ceil(count, width) ==
    CHOOSE rows \in 0..count :
        rows * width >= count /\ \A fewer \in 0..(rows - 1) : fewer * width < count

\* The character counts of the newline-separated segments of a line: the
\* gaps between consecutive line breaks, the two ends of the line included.
SegmentWidths(line) ==
    LET breaks == {0, Len(line) + 1} \cup {i \in 1..Len(line) : line[i] = "\n"}
    IN  {<<from, to - from - 1>> :
            <<from, to>> \in {p \in breaks \X breaks :
                /\ p[1] < p[2]
                /\ \A b \in breaks : ~(p[1] < b /\ b < p[2])}}

RECURSIVE RowsOfSegments(_, _)
RowsOfSegments(segments, width) ==
    IF segments = {} THEN 0
    ELSE LET segment == CHOOSE one \in segments : TRUE
             rows == IF Ceil(segment[2], width) > 1 THEN Ceil(segment[2], width) ELSE 1
         IN  rows + RowsOfSegments(segments \ {segment}, width)

RowsOfLine(line, width) == RowsOfSegments(SegmentWidths(line), width)

RECURSIVE RowsOfLines(_, _)
RowsOfLines(lines, width) ==
    IF lines = <<>> THEN 0
    ELSE RowsOfLine(Head(lines), width) + RowsOfLines(Tail(lines), width)

\* C24: for width > 0 the wrapped row count of a logical line is the sum over
\* its newline-separated segments of max(1, ceil(character_count / width)), and
\* total_wrapped_line_count is the sum of that over all lines; for width = 0
\* both are 0.
C24_WrappedRowCounts ==
    /\ last_step.op = "wrapped_line_count"
        => last_step.result = IF last_step.width = 0 THEN 0
                              ELSE RowsOfLine(last_step.line, last_step.width)
    /\ last_step.op = "total_wrapped_line_count"
        => last_step.result = IF last_step.width = 0 THEN 0
                              ELSE RowsOfLines(last_step.lines, last_step.width)

\* C24 happens: "aaa" and "\n" wrapped at width 2 take 2 and 2 rows, 4 in all.
C24_Witness ==
    /\ last_step.op = "total_wrapped_line_count"
    /\ last_step.width = 2
    /\ Len(last_step.lines) = 2
    /\ last_step.lines[1] = <<"a", "a", "a">>
    /\ last_step.lines[2] = <<"\n">>
    /\ last_step.result = 4

\* The call made was map_key_event on a press of a character of the set.
PressOf(chars) ==
    /\ last_step.op = "map_key_event"
    /\ last_step.key.kind = "Press" /\ last_step.key.code = "Char"
    /\ last_step.key.ch \in chars

C26_HotkeysIgnoreCase ==
    ( last_step.op = "map_key_event" /\ app.ui_mode = "Normal" /\ app.focus = "Chats" )
        => \A hotkey \in { <<SEARCH_HOTKEYS, "StartSearch">>, <<SORT_HOTKEYS, "ToggleSortMode">>,
                           <<COMPOSE_HOTKEYS, "EnterCompose">>, <<QUIT_HOTKEYS, "Quit">> } :
               PressOf({ch \in AllChars : lower_char(ch) \in hotkey[1]})
                   => last_step.cmd = Command(hotkey[2])

\* C27: in every reachable state every entry of the badge-counter map is at
\* least 1, and dialog_new_message_count returns 0 exactly for the dialogs
\* without an entry.
C27_BadgeEntriesArePositive ==
    /\ \A dialog_id \in DOMAIN app.new_message_count_by_dialog :
           app.new_message_count_by_dialog[dialog_id] >= 1
    /\ \A dialog_id \in {1, 2, 3} :
           dialog_new_message_count(app, dialog_id) = 0
               <=> dialog_id \notin DOMAIN app.new_message_count_by_dialog

\* C27 happens: two messages came in for dialog 1 while dialog 2 was selected,
\* one came in for dialog 2: dialog 1 counts 2 and dialog 2 has no entry.
C27_Witness ==
    /\ last_step.op = "on_incoming_message" /\ last_step.dialog_id = 2
    /\ last_step.appended
    /\ app.selected_dialog_id = 2
    /\ DOMAIN app.new_message_count_by_dialog = {1}
    /\ app.new_message_count_by_dialog[1] = 2
    /\ dialog_new_message_count(app, 2) = 0

\* C28: the controller and the backend task never deadlock on the two bounded
\* channels: in no reachable state is the controller suspended in a send on
\* the full request channel while the backend task is suspended in a send on
\* the full event channel.
C28_NoChannelDeadlock ==
    ~ ( /\ ctl_pc = "send" /\ Len(req_chan) >= ReqCap
        /\ tg_pc = "emit" /\ Len(event_chan) >= EvtCap )

\* The SendMessage requests issued and not yet answered to the controller: the
\* one main is suspended sending, those in the request channel, and those the
\* backend answered with a MessageSent or send-failure event not yet received.
OutstandingSends ==
    LET IsAnswer(ev) == \/ ev.type = "MessageSent"
                        \/ ev = ErrorEvent("send message failed")
    IN  (IF ctl_pc = "send" /\ ctl_req.type = "SendMessage" THEN 1 ELSE 0)
        + Cardinality({i \in 1..Len(req_chan) : req_chan[i].type = "SendMessage"})
        + (IF tg_pc = "emit" /\ IsAnswer(tg_event) THEN 1 ELSE 0)
        + Cardinality({i \in 1..Len(event_chan) : IsAnswer(event_chan[i])})

\* C29: at most one SendMessage request is outstanding at any time.
C29_OneSendOutstanding == OutstandingSends <= 1

\* Every request issued was answered and every event emitted was received:
\* both tasks wait at the top of their loops and both channels are empty.
AllAnsweredAndServiced ==
    /\ ctl_pc = "select" /\ tg_pc = "select"
    /\ req_chan = <<>> /\ event_chan = <<>>
    /\ ~dialogs_dirty

\* C30: the loading-messages flag never stays set forever: in a run in which
\* the loop keeps running, the backend stays alive and answers every request,
\* the controller services every event and the user's selection changes and
\* query edits come to an end, the flag, whenever set, is eventually cleared.
C30_LoadingIsEventuallyCleared ==
    ( /\ [](~app.should_quit /\ tg_pc # "done")
      /\ []<>AllAnsweredAndServiced
      /\ <>[][last_step'.op # "Key"]_vars )
        => ( app.is_loading_messages ~> ~app.is_loading_messages )

\* The step receives MessageSent right after a character was typed into the
\* compose text: the answer was already in the event channel when the key was
\* pressed, so the character was typed after the Submit it answers.
TypedAfterSubmit ==
    /\ EventStep("MessageSent")
    /\ last_step.op = "Key" /\ last_step.cmd.cmd = "InsertChar"
    /\ app.ui_mode = "Compose"

\* C31: the compose text removed when MessageSent is applied is the text that
\* was submitted: a character typed in Compose mode between the Submit and the
\* arrival of MessageSent is still in the compose text afterwards.
C31_ClearKeepsLaterInput ==
    [][ TypedAfterSubmit
            => /\ app'.compose_text # <<>>
               /\ app'.compose_text[Len(app'.compose_text)] = last_step.cmd.ch ]_vars

\* The selection is absent although dialogs are visible, or names a dialog that
\* is not visible: the states in which select_prev and select_next would pick
\* the first visible dialog.
SelectionIsStale ==
    /\ visible_dialog_ids(app) # <<>>
    /\ ~seq_contains(visible_dialog_ids(app), app.selected_dialog_id)

C33_MessagesLoadedFrame ==
    [][ last_step'.op = "on_messages_loaded"
          => LET d == last_step'.dialog_id
             IN  /\ DOMAIN app'.messages_by_dialog = DOMAIN app.messages_by_dialog \cup {d}
                 /\ app'.messages_by_dialog[d] = last_step'.messages
                 /\ \A other \in DOMAIN app.messages_by_dialog \ {d} :
                        app'.messages_by_dialog[other] = app.messages_by_dialog[other]
                 /\ ~app'.is_loading_messages
                 /\ app'.selected_dialog_id = app.selected_dialog_id
                 /\ IF d = app.selected_dialog_id
                    THEN /\ app'.message_scroll_from_bottom = 0
                         /\ app'.pending_new_messages_for_selected = 0
                    ELSE /\ app'.message_scroll_from_bottom = app.message_scroll_from_bottom
                         /\ app'.pending_new_messages_for_selected
                                = app.pending_new_messages_for_selected ]_vars

\* C33 happens: messages were loaded for dialog 1 while dialog 2 was selected,
\* scrolled up by 2 with one message pending, and both values are kept.
C33_Witness ==
    /\ last_step.op = "on_messages_loaded" /\ last_step.dialog_id = 1
    /\ app.selected_dialog_id = 2
    /\ app.messages_by_dialog[1] = <<Message(2), Message(1)>>
    /\ app.message_scroll_from_bottom = 2
    /\ app.pending_new_messages_for_selected = 1
    /\ ~app.is_loading_messages

\* C34: on_message_sent(d, m) appends m to d's list if its id is new, clears the
\* sending flag, the compose text and last error, and changes nothing else: no
\* badge counter, not the pending indicator, the scroll offset or the
\* selection, whether or not d is the selected dialog; no request is sent.
C34_MessageSentFrame ==
    [][ EventStep("MessageSent")
          => LET d == last_step'.event.dialog_id
                 m == last_step'.event.message
                 old == IF d \in DOMAIN app.messages_by_dialog
                        THEN app.messages_by_dialog[d] ELSE <<>>
                 new == IF \E i \in 1..Len(old) : old[i].id = m.id
                        THEN old ELSE Append(old, m)
             IN  /\ app' = [app EXCEPT !.messages_by_dialog = map_insert(@, d, new),
                                       !.is_sending_message = FALSE,
                                       !.compose_text = <<>>,
                                       !.last_error = "None"]
                 /\ UNCHANGED <<req_chan, ctl_pc, ctl_req>> ]_vars

\* C34 happens: the answer to a send for dialog 1 arrived after the selection
\* moved to dialog 2, whose transcript is scrolled up, while dialog 1 has a
\* badge: the message is stored for dialog 1 and the rest is kept.
C34_Witness ==
    /\ last_step.op = "Event" /\ last_step.event = MessageSentEvent(1, Message(2))
    /\ app.selected_dialog_id = 2
    /\ app.messages_by_dialog[1] = <<Message(1), Message(2)>>
    /\ dialog_new_message_count(app, 1) = 1
    /\ app.message_scroll_from_bottom > 0
    /\ app.compose_text = <<>> /\ ~app.is_sending_message /\ app.last_error = "None"

\* After the DialogsLoaded event of the step a dialog is selected, and it is
\* another one than before or its stored message list is empty.
SelectionIsNewOrEmpty ==
    /\ app'.selected_dialog_id # NoneId
    /\ \/ app'.selected_dialog_id # app.selected_dialog_id
       \/ selected_dialog_messages(app') = <<>>

\* C35 as stated: on a DialogsLoaded event the controller sends a LoadMessages
\* request for the resulting selection and sets the loading-messages flag if
\* and only if a dialog is selected afterwards and the selection is new or its
\* stored message list is empty.
C35_DialogsLoadedRequestsMessages ==
    [][ /\ EventStep("DialogsLoaded")
            => IF SelectionIsNewOrEmpty
               THEN /\ app'.is_loading_messages
                    /\ Issued(LoadMessagesRequest(app'.selected_dialog_id))
               ELSE /\ NoLoadIssued
                    /\ app'.is_loading_messages = app.is_loading_messages
        /\ ( last_step'.op = "SendResume" /\ ctl_req.type = "LoadMessages" )
            => /\ req_chan' = Append(req_chan, ctl_req)
               /\ app'.is_loading_messages ]_vars

\* C35, amended: the same while the backend task is alive; when the backend
\* task has ended by the time the request is handed over, nothing is sent, last
\* error is set and the loading-messages flag is rolled back.
C35_RequestsWhileBackendAlive ==
    [][ /\ EventStep("DialogsLoaded")
            => IF SelectionIsNewOrEmpty
               THEN IF RequestChannelClosed
                    THEN LoadRequestFailed
                    ELSE /\ app'.is_loading_messages
                         /\ Issued(LoadMessagesRequest(app'.selected_dialog_id))
               ELSE /\ NoLoadIssued
                    /\ app'.is_loading_messages = app.is_loading_messages
        /\ ( last_step'.op = "SendResume" /\ ctl_req.type = "LoadMessages" )
            => IF RequestChannelClosed
               THEN LoadRequestFailed
               ELSE /\ req_chan' = Append(req_chan, ctl_req)
                    /\ app'.is_loading_messages ]_vars

\* C35 happens: a refreshed dialog list without dialog 1 moved the selection
\* from dialog 1, whose messages were stored, to dialog 2 while the backend
\* task was alive, and LoadMessages(2, 50) is the one request queued.
C35_Witness ==
    /\ last_step.op = "Event" /\ last_step.event = DialogsLoadedEvent(<<Dialog2>>)
    /\ app.selected_dialog_id = 2
    /\ app.is_loading_messages
    /\ req_chan = <<LoadMessagesRequest(2)>>
    /\ 1 \in DOMAIN app.messages_by_dialog
    /\ tg_pc # "done"

\* The channel after the step is the channel before it, or that with its head
\* received, or that with one message added at the end.
FifoStep(chan_before, chan_after) ==
    \/ chan_after = chan_before
    \/ chan_before # <<>> /\ chan_after = Tail(chan_before)
    \/ /\ Len(chan_after) = Len(chan_before) + 1
       /\ SubSeq(chan_after, 1, Len(chan_before)) = chan_before

\* The event is an answer the backend gives to the request.
IsAnswerTo(ev, req) ==
    \/ ev.type = "Error"
    \/ req.type = "LoadDialogs" /\ ev.type = "DialogsLoaded"
    \/ req.type = "LoadMessages" /\ ev.type = "MessagesLoaded"
           /\ ev.dialog_id = req.dialog_id
    \/ req.type = "SendMessage" /\ ev.type = "MessageSent"
           /\ ev.dialog_id = req.dialog_id

\* The step sends the event once: it joins the end of the event channel, or it
\* is the one the backend task is suspended sending.
EmittedOnce(ev) ==
    \/ event_chan' = Append(event_chan, ev) /\ tg_pc' = "select"
    \/ event_chan' = event_chan /\ tg_pc' = "emit" /\ tg_event' = ev

Front(seq) == IF seq = <<>> THEN <<>> ELSE SubSeq(seq, 1, Len(seq) - 1)

\* The state differs from app in the search query and in what selection
\* re-validation sets, and its selection is valid for its query.
OnlyQueryAndSelectionDiffer(t) ==
    /\ [t EXCEPT !.search_query = app.search_query,
                 !.selected_dialog_id = app.selected_dialog_id,
                 !.message_scroll_from_bottom = app.message_scroll_from_bottom,
                 !.pending_new_messages_for_selected =
                     app.pending_new_messages_for_selected] = app
    /\ IF visible_dialog_ids(t) = <<>> THEN t.selected_dialog_id = NoneId
       ELSE seq_contains(visible_dialog_ids(t), t.selected_dialog_id)

\* C37: insert_char(ch) and backspace() change only the compose text in Compose
\* mode, only the search query and the re-validated selection in Search mode,
\* and nothing in Normal mode; in Compose and Search modes insert_char(ch)
\* followed by backspace() restores the buffer.
C37_EditsTouchOnlyTheirBuffer ==
    \A ch \in {"a", " ", "i", "/"} :
        LET typed == insert_char(app, ch)
            erased == backspace(app)
            restored == backspace(typed)
        IN  CASE app.ui_mode = "Compose" ->
                    /\ typed = [app EXCEPT !.compose_text = app.compose_text \o <<ch>>]
                    /\ erased = [app EXCEPT !.compose_text = Front(app.compose_text)]
                    /\ restored.compose_text = app.compose_text
              [] app.ui_mode = "Search" ->
                    /\ typed.search_query = app.search_query \o <<ch>>
                    /\ OnlyQueryAndSelectionDiffer(typed)
                    /\ erased.search_query = Front(app.search_query)
                    /\ OnlyQueryAndSelectionDiffer(erased)
                    /\ restored.search_query = app.search_query
              [] app.ui_mode = "Normal" ->
                    typed = app /\ erased = app

\* C37 happens: ' ' was typed into the search query, which no title contains:
\* the query holds it and the selection is absent.
C37_Witness ==
    /\ last_step.op = "Key" /\ last_step.cmd = [cmd |-> "InsertChar", ch |-> " "]
    /\ app.ui_mode = "Search"
    /\ app.search_query = <<" ">>
    /\ app.selected_dialog_id = NoneId
    /\ app.dialogs # <<>>

\* C38: scroll_messages_up adds 1 to the scroll offset and changes nothing
\* else; scroll_messages_down subtracts 1 but never goes below 0, and at offset
\* 0 changes nothing; scroll_messages_up followed by scroll_messages_down
\* restores the offset.
C38_ScrollUpThenDownRestores ==
    /\ [](scroll_messages_down(scroll_messages_up(app)).message_scroll_from_bottom
              = app.message_scroll_from_bottom)
    /\ [][ /\ last_step'.op = "scroll_messages_up"
               => app' = [app EXCEPT !.message_scroll_from_bottom = @ + 1]
           /\ last_step'.op = "scroll_messages_down"
               => /\ app'.message_scroll_from_bottom >= 0
                  /\ IF app.message_scroll_from_bottom = 0
                     THEN app' = app
                     ELSE app'.message_scroll_from_bottom
                              = app.message_scroll_from_bottom - 1 ]_vars

\* C38 happens: scroll_messages_down took the offset from 2 to 1 with a message
\* pending, which stays pending.
C38_Witness ==
    /\ last_step.op = "scroll_messages_down"
    /\ app.message_scroll_from_bottom = 1
    /\ app.pending_new_messages_for_selected = 1

\* C39: in every state reachable through the event loop a pending indicator
\* above 0 implies a scroll offset above 0.
C39_PendingOnlyWhileScrolledUp ==
    app.pending_new_messages_for_selected > 0 => app.message_scroll_from_bottom > 0

\* C39 happens: with the transcript scrolled up by 2 a message came in for the
\* selected dialog, and one step down left it pending at offset 1.
C39_Witness ==
    /\ last_step.op = "Key" /\ last_step.cmd.cmd = "ScrollMessagesDown"
    /\ app.message_scroll_from_bottom = 1
    /\ app.pending_new_messages_for_selected = 1
    /\ app.selected_dialog_id = 1

\* C40: in every state reachable through the event loop the search query is
\* empty whenever the mode is not Search.
C40_QueryOnlyInSearchMode ==
    app.ui_mode # "Search" => app.search_query = <<>>

\* C40 happens: Esc left Search mode with a query no title contained; the query
\* is empty again, dialog 1 is selected anew and its messages are requested.
C40_Witness ==
    /\ last_step.op = "Key" /\ last_step.cmd.cmd = "ExitComposeOrSearch"
    /\ app.ui_mode = "Normal"
    /\ app.search_query = <<>>
    /\ app.selected_dialog_id = 1
    /\ 1 \in DOMAIN app.messages_by_dialog
    /\ req_chan = <<LoadMessagesRequest(1)>>

====
